---- MODULE Spec2Model ----
(***************************************************************************)
(* A model of the cava-grammar generator: the HashBuffer (ordered event    *)
(* buffer with a cursor and per-record Consumed flags), the EventParser    *)
(* dispatcher, the event converters (correlation policies), the            *)
(* Interaction sentence model and the batch driver of cava-gen.py.         *)
(*                                                                         *)
(* Conventions.                                                            *)
(*  - A Python str is a sequence of tokens: "" is << >>, concatenation is  *)
(*    \o, s[:-1] drops the last token.  Typed characters are one token     *)
(*    each; literal pieces and payload texts are one token each.           *)
(*  - Time is counted in hundredths of a second, so 0.91 s is 91.          *)
(*  - Python's None for the cursor is NoneIndex; a converter's return      *)
(*    value is a record [status, list] with status "list", "None", or the  *)
(*    way the call ended abnormally ("TypeError", "exit").                 *)
(*  - index_ is 0-based as in the code; the record under the cursor is     *)
(*    events_[index_ + 1].                                                 *)
(***************************************************************************)
EXTENDS Integers, Sequences, FiniteSets, TLC

VARIABLES
    events_,             \* HashBuffer.events_
    index_,              \* HashBuffer.index_
    grammar_statements,  \* what the last EventParser.parse_event call returned
    grammar_events,      \* the driver's list of statements not yet written
    output,              \* what generate_output_file has appended to the file
    observed,            \* what the last HashBuffer.current() call returned
    pc,                  \* the driver's position ("api": no driver, free calls)
    op,                  \* the last operation performed
    buffer_size,         \* the driver's window size
    scenario,            \* which telemetry alphabet the source draws from
    now,                 \* timestamp of the last record supplied
    nread,               \* how many records have been supplied
    origin,              \* how many supplied records precede events_[1]
    dispatched,          \* arrival numbers of the records dispatched by the driver
    keyed,               \* positions in events_ of the records some emitted
                         \* key-entry statement was rendered from
    interaction,         \* an Interaction under construction (sentence model)
    rendered             \* the last str(interaction)

vars == <<events_, index_, grammar_statements, grammar_events, output, observed,
          pc, op, buffer_size, scenario, now, nread, origin, dispatched,
          keyed, interaction, rendered>>

bufferVars == <<events_, index_>>
driverVars == <<grammar_events, output, pc, buffer_size, dispatched>>
sentenceVars == <<interaction, rendered>>

\* ---------------------------------------------------------------- bounds
MaxEvents == 3

\* ------------------------------------------------------- lookup tables
\* charMapping and internal_plugin_to_grammar of core/misc.py; the grave accent
\* character is written GRAVE_ACCENT.
charMapping ==
    "KEY_SPACE" :> <<" ">> @@
    "KEY_APOSTROPHE" :> <<"'">> @@
    "KEY_EQUALS" :> <<"=">> @@
    "KEY_COMMA" :> <<",">> @@
    "KEY_MINUS" :> <<"-">> @@
    "KEY_PERIOD" :> <<".">> @@
    "KEY_SLASH" :> <<"/">> @@
    "KEY_SEMICOLON" :> <<";">> @@
    "KEY_LEFT_BRACKET" :> <<"[">> @@
    "KEY_RIGHT_BRACKET" :> <<"]">> @@
    "KEY_BACKSLASH" :> <<"\\">> @@
    "KEY_GRAVE" :> <<"GRAVE_ACCENT">> @@
    "KEY_0" :> <<"0">> @@
    "KEY_1" :> <<"1">> @@
    "KEY_2" :> <<"2">> @@
    "KEY_3" :> <<"3">> @@
    "KEY_4" :> <<"4">> @@
    "KEY_5" :> <<"5">> @@
    "KEY_6" :> <<"6">> @@
    "KEY_7" :> <<"7">> @@
    "KEY_8" :> <<"8">> @@
    "KEY_9" :> <<"9">> @@
    "KEY_NUMPAD_0" :> <<"0">> @@
    "KEY_NUMPAD_1" :> <<"1">> @@
    "KEY_NUMPAD_2" :> <<"2">> @@
    "KEY_NUMPAD_3" :> <<"3">> @@
    "KEY_NUMPAD_4" :> <<"4">> @@
    "KEY_NUMPAD_5" :> <<"0">> @@
    "KEY_NUMPAD_6" :> <<"6">> @@
    "KEY_NUMPAD_7" :> <<"7">> @@
    "KEY_NUMPAD_8" :> <<"8">> @@
    "KEY_NUMPAD_9" :> <<"9">> @@
    "KEY_A" :> <<"a">> @@
    "KEY_B" :> <<"b">> @@
    "KEY_C" :> <<"c">> @@
    "KEY_D" :> <<"d">> @@
    "KEY_E" :> <<"e">> @@
    "KEY_F" :> <<"f">> @@
    "KEY_G" :> <<"g">> @@
    "KEY_H" :> <<"h">> @@
    "KEY_I" :> <<"i">> @@
    "KEY_J" :> <<"j">> @@
    "KEY_K" :> <<"k">> @@
    "KEY_L" :> <<"l">> @@
    "KEY_M" :> <<"m">> @@
    "KEY_N" :> <<"n">> @@
    "KEY_O" :> <<"o">> @@
    "KEY_P" :> <<"p">> @@
    "KEY_Q" :> <<"q">> @@
    "KEY_R" :> <<"r">> @@
    "KEY_S" :> <<"s">> @@
    "KEY_T" :> <<"t">> @@
    "KEY_U" :> <<"u">> @@
    "KEY_V" :> <<"v">> @@
    "KEY_W" :> <<"w">> @@
    "KEY_X" :> <<"x">> @@
    "KEY_Y" :> <<"y">> @@
    "KEY_Z" :> <<"z">>

internal_plugin_to_grammar ==
    "CavaCodeBrowserPlugin" :> <<"CodeBrowser : ListingView">> @@
    "CavaDecompilePlugin" :> <<"Decompiler">> @@
    "CavaFunctionGraphPlugin_ListingPanel" :> <<"FunctionGraph">> @@
    "CavaTaskSequencingPanel_TaskInstructionsTextPane" :> <<"TaskInstructions">> @@
    "CavaTaskSequencingPanel_ActionButton" :> <<"TaskInstructions : Button(OK)">> @@
    "CavaTaskSequencingPanel" :> <<"TaskInstructions">> @@
    "CavaTaskSequencingPanel_TaskResultTextPane" :> <<"TaskInstructions">> @@
    "TaskSurvey_q1r1" :> <<"TaskSurveyRadioButton">> @@
    "TaskSurvey_q1r3" :> <<"TaskSurveyRadioButton">> @@
    "TaskSurvey_q1r2" :> <<"TaskSurveyRadioButton">> @@
    "TaskSurvey_q1r4" :> <<"TaskSurveyRadioButton">> @@
    "TaskSurvey_q1r7" :> <<"TaskSurveyRadioButton">> @@
    "TaskSurvey_q1r6" :> <<"TaskSurveyRadioButton">> @@
    "TaskSurvey_q2r1" :> <<"TaskSurveyRadioButton">> @@
    "TaskSurvey_q2r3" :> <<"TaskSurveyRadioButton">> @@
    "TaskSurvey_q2r2" :> <<"TaskSurveyRadioButton">> @@
    "TaskSurvey_q2r4" :> <<"TaskSurveyRadioButton">> @@
    "TaskSurvey_q2r5" :> <<"TaskSurveyRadioButton">> @@
    "TaskSurvey_q2r6" :> <<"TaskSurveyRadioButton">> @@
    "TaskSurvey_q2r7" :> <<"TaskSurveyRadioButton">> @@
    "TaskSurvey_q3r1" :> <<"TaskSurveyRadioButton">> @@
    "TaskSurvey_q3r2" :> <<"TaskSurveyRadioButton">> @@
    "TaskSurvey_q3r3" :> <<"TaskSurveyRadioButton">> @@
    "TaskSurvey_q3r5" :> <<"TaskSurveyRadioButton">> @@
    "TaskSurvey_q3r7" :> <<"TaskSurveyRadioButton">> @@
    "TaskSurvey_q3r4" :> <<"TaskSurveyRadioButton">> @@
    "TaskSurvey_q3r6" :> <<"TaskSurveyRadioButton">> @@
    "TaskSurvey_q1r5" :> <<"TaskSurveyRadioButton">> @@
    "TaskSurvey_q3Comment" :> <<"TaskSurveyCommentWindow">> @@
    "TaskSurvey_SubmitResponses" :> <<"TaskSurveySubmitButton">> @@
    "CavaFunctionGraphPlugin" :> <<"FunctionGraph">> @@
    "CavaFunctionGraphPlugin_SatelliteGraphViewer" :> <<"FunctionGraphSatelliteWindow">>

\* ------------------------------------------------------- sentence model
\* Interaction.__init__: the four fragments start as "".
NewInteraction ==
    [input_device_ |-> << >>, input_action_ |-> << >>,
     tool_context_ |-> << >>, action_ |-> << >>]

\* GRAMMAR_TYPE members that name a fragment, and Interaction.type_to_fragment.
FragmentTypes == {"INPUT_DEVICE", "INPUT_ACTION", "TOOL_CONTEXT", "ACTION"}

type_to_fragment ==
    "INPUT_DEVICE" :> "input_device_" @@ "INPUT_ACTION" :> "input_action_" @@
    "TOOL_CONTEXT" :> "tool_context_" @@ "ACTION" :> "action_"

\* Interaction.set_fragment (the fragment is a str here; None is handled by
\* the callers, where the code exits).
set_fragment(i, fragment, grammar_type) ==
    [i EXCEPT ![type_to_fragment[grammar_type]] = fragment]

\* Interaction.set_sentence
set_sentence(i, input_device, input_action, tool_context, tool_action) ==
    [i EXCEPT !.input_device_ = input_device, !.input_action_ = input_action,
              !.tool_context_ = tool_context, !.action_ = tool_action]

\* A variant of Interaction.__str__ whose test of the effect is not nested in
\* the test of the context.
Interaction_str_flat(i) ==
    LET grammar_string == i.input_device_ \o <<" : ">> \o i.input_action_
        with_context == IF i.tool_context_ # << >>
                        THEN grammar_string \o <<" > ">> \o i.tool_context_
                        ELSE grammar_string
    IN  IF i.action_ # << >> THEN with_context \o <<" > ">> \o i.action_
        ELSE with_context

\* Interaction.__str__
Interaction_str(i) ==
    LET grammar_string == i.input_device_ \o <<" : ">> \o i.input_action_
    IN  IF i.tool_context_ # << >>
        THEN IF i.action_ # << >>
             THEN grammar_string \o <<" > ">> \o i.tool_context_
                                 \o <<" > ">> \o i.action_
             ELSE grammar_string \o <<" > ">> \o i.tool_context_
        ELSE grammar_string

\* GrammarEvent.__init__
GrammarEvent(sentence, inferred, hash_list, timestamp, source_event) ==
    [sentence_ |-> sentence, inferred_ |-> inferred, hash_list_ |-> hash_list,
     timestamp_ |-> timestamp, source_event_ |-> source_event]

\* --------------------------------------------------------------- buffer
NoneIndex == -1

\* hashlib.md5(str(event)).hexdigest(): a fingerprint of the entry's content,
\* equal for equal content.
md5(event) == <<"md5", event>>

\* The record HashBuffer.add builds from a raw entry {name: data}.
mod_event(event) ==
    [Name |-> event.name, Data |-> event.data,
     Timestamp |-> event.data.Timestamp, Hash |-> md5(event),
     Consumed |-> FALSE, Event |-> event]

\* HashBuffer.has_next
has_next(event_list, index) ==
    IF index = NoneIndex THEN FALSE ELSE ~(index >= Len(event_list))

\* HashBuffer.current: the record, None past the end, and a TypeError while
\* index_ is None (None >= int).
current(event_list, index) ==
    IF index = NoneIndex THEN [status |-> "TypeError"]
    ELSE IF index >= Len(event_list) THEN [status |-> "None"]
    ELSE [status |-> "event", event |-> event_list[index + 1]]

\* HashBuffer.get_buffer_time_frame (for a buffer holding a record)
get_buffer_time_frame(event_list) ==
    event_list[Len(event_list)].Timestamp - event_list[1].Timestamp

\* A variant of Consume that flips the flag instead of setting it.
Consume_toggle(event_list, positions) ==
    [p \in DOMAIN event_list |->
        IF p \in positions
        THEN [event_list[p] EXCEPT !.Consumed = ~event_list[p].Consumed]
        ELSE event_list[p]]

\* Marks the records at the given positions consumed (event["Consumed"] = True).
Consume(event_list, positions) ==
    [p \in DOMAIN event_list |->
        IF p \in positions THEN [event_list[p] EXCEPT !.Consumed = TRUE]
        ELSE event_list[p]]

\* Return values of a converter's parse_event, with the buffer's records after
\* the call.
ReturnNone(event_list) == [status |-> "None", list |-> << >>, events |-> event_list]
ReturnList(list, event_list) == [status |-> "list", list |-> list, events |-> event_list]
Raise(what, event_list) == [status |-> what, list |-> << >>, events |-> event_list]

\* dict.get on a table: whether the key has an entry.
Has(table, key) == key \in DOMAIN table

\* ------------------------------------------------------ policy constants
KeyGap == 91          \* time_diff < .91 in get_all_typing_events
ScrollGap == 500      \* time_diff < 5.0 in consume_scroll_events
ClickWindow == 100    \* diff > 1 in get_input_fragments
FieldWindow == 150    \* diff > 1.5 in load_field_location_events

\* str.lower().capitalize() on the button names of the telemetry.
lower_capitalize(s) ==
    CASE s = "LEFT" -> <<"Left">>
      [] s = "RIGHT" -> <<"Right">>
      [] s = "MIDDLE" -> <<"Middle">>

\* str(n) of a number, one token.
str(n) == <<ToString(n)>>

\* ------------------------------------------------------- KeyboardEvent
\* A variant of typing_gap_small that also takes a gap of 0.91 s.
typing_gap_small_inclusive(time_diff) == time_diff <= KeyGap

\* The test of get_all_typing_events on the gap from the last typed key.
typing_gap_small(time_diff) == time_diff < KeyGap

\* The loop of KeyboardEvent.get_all_typing_events from position i on; last is
\* the position of last_typed_event, typing the positions collected so far.
RECURSIVE typing_loop(_, _, _, _)
typing_loop(event_list, i, last, typing) ==
    IF i > Len(event_list) THEN typing
    ELSE IF event_list[i].Name = "KeyboardEvent"
            /\ event_list[i].Data.EventName = "DOWN"
         THEN IF typing_gap_small(event_list[i].Timestamp
                                      - event_list[last].Timestamp)
              THEN typing_loop(event_list, i + 1, i, Append(typing, i))
              ELSE typing
         ELSE typing_loop(event_list, i + 1, last, typing)

\* KeyboardEvent.get_all_typing_events: the positions of the follow-up keys.
get_all_typing_events(event_list, index) ==
    typing_loop(event_list, index + 2, index + 1, << >>)

\* A variant of type_key whose backspace removes the first character.
type_key_drop_first(typed_string, key) ==
    IF key = "KEY_BACKSPACE" \/ key = "KEY_DELETE"
    THEN SubSeq(typed_string, 2, Len(typed_string))
    ELSE IF ~Has(charMapping, key) THEN typed_string
    ELSE typed_string \o charMapping[key]

\* One key of the loop in create_typing_string applied to typed_string.
type_key(typed_string, key) ==
    IF key = "KEY_BACKSPACE" \/ key = "KEY_DELETE"
    THEN SubSeq(typed_string, 1, Len(typed_string) - 1)
    ELSE IF ~Has(charMapping, key) THEN typed_string
    ELSE typed_string \o charMapping[key]

\* The loop of KeyboardEvent.create_typing_string over the positions typed.
RECURSIVE typing_string_loop(_, _, _, _)
typing_string_loop(event_list, typed, typed_string, hashes) ==
    IF typed = << >>
    THEN [typed_string |-> typed_string, hashes |-> hashes, events |-> event_list]
    ELSE LET p == Head(typed)
         IN  typing_string_loop(Consume(event_list, {p}), Tail(typed),
                                type_key(typed_string, event_list[p].Data.Key),
                                Append(hashes, event_list[p].Hash))

\* KeyboardEvent.create_typing_string
create_typing_string(event_list, typed) ==
    typing_string_loop(event_list, typed, << >>, << >>)

\* A variant of key_consumed that never finds the record consumed.
key_consumed_ignored(event) == FALSE

\* The first test of KeyboardEvent.parse_event: consumed by an earlier key.
key_consumed(event) == event.Consumed

\* A variant of typed_run without the insertion of the cursor's record.
typed_run_of_follow_ups(index, typed) == typed

\* The records KeyboardEvent.parse_event renders: typed.insert(0, event).
typed_run(index, typed) == <<index + 1>> \o typed

\* KeyboardEvent.parse_event
KeyboardEvent_parse_event(event_list, index) ==
    LET event == event_list[index + 1]
        typed == get_all_typing_events(event_list, index)
    IN  IF key_consumed(event) THEN ReturnNone(event_list)
        ELSE IF event.Data.EventName = "UP" THEN ReturnNone(event_list)
        ELSE IF typed = << >> THEN ReturnNone(event_list)
        ELSE LET r == create_typing_string(event_list, typed_run(index, typed))
                 i1 == set_fragment(NewInteraction, <<"Keyboard">>, "INPUT_DEVICE")
                 i2 == set_fragment(i1, r.typed_string, "INPUT_ACTION")
             IN  ReturnList(<<GrammarEvent(i2, FALSE, r.hashes, event.Timestamp,
                                           event.Event)>>, r.events)

\* ---------------------------------- VerticalScrollbarAdjustmentEvent
\* A variant of same_scrollbar without the comparison of the sources.
same_scrollbar_any_source(event, last_scroll_event) ==
    event.Name = "VerticalScrollbarAdjustmentEvent"

\* The test of consume_scroll_events for a record to belong to the run.
same_scrollbar(event, last_scroll_event) ==
    /\ event.Name = "VerticalScrollbarAdjustmentEvent"
    /\ event.Data.EventSource = last_scroll_event.Data.EventSource

\* The loop of consume_scroll_events from position i on.
RECURSIVE scroll_loop(_, _, _, _)
scroll_loop(event_list, i, last, hash_list) ==
    IF i > Len(event_list)
    THEN [last |-> last, hash_list |-> hash_list, events |-> event_list]
    ELSE IF same_scrollbar(event_list[i], event_list[last])
         THEN IF event_list[i].Timestamp - event_list[last].Timestamp < ScrollGap
              THEN scroll_loop(Consume(event_list, {i}), i + 1, i,
                               Append(hash_list, event_list[i].Hash))
              ELSE [last |-> last, hash_list |-> hash_list, events |-> event_list]
         ELSE scroll_loop(event_list, i + 1, last, hash_list)

\* A variant of consume_scroll_events that leaves the follow-ups unmarked.
consume_scroll_events_unmarked(event_list, index) ==
    [scroll_loop(event_list, index + 2, index + 1, << >>) EXCEPT !.events = event_list]

\* VerticalScrollbarAdjustmentEvent.consume_scroll_events
consume_scroll_events(event_list, index) ==
    scroll_loop(event_list, index + 2, index + 1, << >>)

\* A variant of scroll_run_discarded that keeps every run.
scroll_run_never_discarded(hash_list) == FALSE

\* A variant of scroll_run_discarded that keeps a run with one follow-up.
scroll_run_discarded_below_one(hash_list) == Len(hash_list) < 1

\* The test of VerticalScrollbarAdjustmentEvent.parse_event that discards a run.
scroll_run_discarded(hash_list) == Len(hash_list) < 2

\* A variant of generate_inferred_statements whose effect fragment is the
\* context, the position the run started from.
inferred_statements_from_start(event, tool_context, tool_action, hash_list) ==
    LET S(action) == set_sentence(NewInteraction, <<"Mouse">>, action,
                                  tool_context, tool_context)
        G(action) == GrammarEvent(S(action), TRUE, hash_list, event.Timestamp,
                                  event.Event)
    IN  <<G(<<"Left Click">>), G(<<"MouseWheel Up">>), G(<<"MouseWheel Down">>),
          G(<<"Drag">>)>>

\* VerticalScrollbarAdjustmentEvent.generate_inferred_statements
generate_inferred_statements(event, tool_context, tool_action, hash_list) ==
    LET S(action) == set_sentence(NewInteraction, <<"Mouse">>, action,
                                  tool_context, tool_action)
        G(action) == GrammarEvent(S(action), TRUE, hash_list, event.Timestamp,
                                  event.Event)
    IN  <<G(<<"Left Click">>), G(<<"MouseWheel Up">>), G(<<"MouseWheel Down">>),
          G(<<"Drag">>)>>

\* VerticalScrollbarAdjustmentEvent.parse_event
VerticalScrollbarAdjustmentEvent_parse_event(event_list, index) ==
    LET event == event_list[index + 1]
        event_data == event.Data
        r == consume_scroll_events(event_list, index)
        hash_list == <<event.Hash>> \o r.hash_list
        plugin == internal_plugin_to_grammar[event_data.EventSource]
        tool_context == plugin \o <<" : ", "ScrollbarLocation", "[">>
                               \o str(event_data.ScrollbarLocation) \o <<"]">>
        tool_action_scroll_position ==
            <<"ScrollbarLocation", "[">>
                \o str(r.events[r.last].Data.ScrollbarLocation) \o <<"]">>
        tool_action == plugin \o <<" : ">> \o tool_action_scroll_position
    IN  IF event.Consumed THEN ReturnNone(event_list)
        ELSE IF scroll_run_discarded(r.hash_list) THEN ReturnNone(r.events)
        ELSE IF ~Has(internal_plugin_to_grammar, event_data.EventSource)
             THEN Raise("TypeError", r.events)
        ELSE ReturnList(generate_inferred_statements(event, tool_context,
                                                     tool_action, hash_list),
                        r.events)

\* ------------------------------------------ GhidraProgramActivatedEvent
NoProgramName == <<"None">>     \* event_data.get("ProgramName") is None

\* A variant of click_too_old that also rejects a click exactly 1 s old.
click_too_old_inclusive(diff) == diff >= ClickWindow

\* The test of get_input_fragments that ends the backward scan.
click_too_old(diff) == diff > ClickWindow

\* The loop of get_input_fragments from position i down; src_timestamp is the
\* trigger's time.  found = FALSE stands for (None, None, None).
RECURSIVE input_fragments_loop(_, _, _)
input_fragments_loop(event_list, i, src_timestamp) ==
    IF i < 1 THEN [found |-> FALSE]
    ELSE IF event_list[i].Name = "MouseEvent"
         THEN IF click_too_old(src_timestamp - event_list[i].Timestamp)
              THEN [found |-> FALSE]
              ELSE IF event_list[i].Data.EventName = "CLICK"
                   THEN [found |-> TRUE, input_device |-> <<"Mouse">>,
                         input_action |-> lower_capitalize(event_list[i].Data.Button),
                         hash_list |-> <<event_list[i].Hash>>, position |-> i]
                   ELSE input_fragments_loop(event_list, i - 1, src_timestamp)
         ELSE input_fragments_loop(event_list, i - 1, src_timestamp)

\* get_input_fragments
get_input_fragments(event_list, index) ==
    input_fragments_loop(event_list, index, event_list[index + 1].Timestamp)

\* The context and effect fragments of a program activation.
program_tab(program_name) ==
    <<"CodeBrowser", " : ", " ProgramTab(", "\"">> \o program_name \o <<"\"", ")">>
ghidra_load(program_name) == <<"Ghidra load \"">> \o program_name \o <<"\"">>

\* A variant of inferred_program_activated_events whose statements are not
\* flagged as inferred.
inferred_program_activated_events_plain(event_list, index) ==
    LET event == event_list[index + 1]
        program_name == event.Data.ProgramName
        S(action) == set_sentence(NewInteraction, <<"Mouse">>, action,
                                  program_tab(program_name), ghidra_load(program_name))
        G(action) == GrammarEvent(S(action), FALSE, <<event.Hash>>, event.Timestamp,
                                  event.Event)
    IN  <<G(<<"Left Click">>), G(<<"Middle Click">>)>>

\* GhidraProgramActivatedEvent.inferred_program_activated_events
inferred_program_activated_events(event_list, index) ==
    LET event == event_list[index + 1]
        program_name == event.Data.ProgramName
        S(action) == set_sentence(NewInteraction, <<"Mouse">>, action,
                                  program_tab(program_name), ghidra_load(program_name))
        G(action) == GrammarEvent(S(action), TRUE, <<event.Hash>>, event.Timestamp,
                                  event.Event)
    IN  <<G(<<"Left Click">>), G(<<"Middle Click">>)>>

\* A variant of GhidraProgramActivatedEvent.parse_event that stamps and cites
\* the statement with the click alone.
GhidraProgramActivatedEvent_click_stamped(event_list, index) ==
    LET event == event_list[index + 1]
        program_name == event.Data.ProgramName
        f == get_input_fragments(event_list, index)
    IN  IF program_name = NoProgramName THEN ReturnNone(event_list)
        ELSE IF ~f.found
             THEN ReturnList(inferred_program_activated_events(event_list, index),
                             event_list)
        ELSE LET i == set_sentence(NewInteraction, f.input_device, f.input_action,
                                   program_tab(program_name), ghidra_load(program_name))
             IN  ReturnList(<<GrammarEvent(i, FALSE, f.hash_list,
                                           event_list[f.position].Timestamp,
                                           event.Event)>>,
                            event_list)

\* GhidraProgramActivatedEvent.parse_event
GhidraProgramActivatedEvent_parse_event(event_list, index) ==
    LET event == event_list[index + 1]
        program_name == event.Data.ProgramName
        f == get_input_fragments(event_list, index)
    IN  IF program_name = NoProgramName THEN ReturnNone(event_list)
        ELSE IF ~f.found
             THEN ReturnList(inferred_program_activated_events(event_list, index),
                             event_list)
        ELSE LET i == set_sentence(NewInteraction, f.input_device, f.input_action,
                                   program_tab(program_name), ghidra_load(program_name))
             IN  ReturnList(<<GrammarEvent(i, FALSE, <<event.Hash>> \o f.hash_list,
                                           event.Timestamp, event.Event)>>,
                            event_list)
\* keyboard_scan_code_mapping of core/misc.py: key code -> KeyboardKey value.
keyboard_scan_code_mapping ==
    65307 :> "KEY_ESCAPE" @@ 65470 :> "KEY_F1" @@ 65471 :> "KEY_F2" @@
    65472 :> "KEY_F3" @@ 65473 :> "KEY_F4" @@ 65474 :> "KEY_F5" @@
    65475 :> "KEY_F6" @@ 65476 :> "KEY_F7" @@ 65477 :> "KEY_F8" @@
    65478 :> "KEY_F9" @@ 65479 :> "KEY_F10" @@ 65480 :> "KEY_F11" @@
    65481 :> "KEY_F12" @@ 65377 :> "KEY_PRINT_SCREEN" @@
    65300 :> "KEY_SCROLL_LOCK" @@ 65299 :> "KEY_PAUSE" @@ 96 :> "KEY_GRAVE" @@
    49 :> "KEY_1" @@ 50 :> "KEY_2" @@ 51 :> "KEY_3" @@ 52 :> "KEY_4" @@
    53 :> "KEY_5" @@ 54 :> "KEY_6" @@ 55 :> "KEY_7" @@ 56 :> "KEY_8" @@
    57 :> "KEY_9" @@ 48 :> "KEY_0" @@ 45 :> "KEY_MINUS" @@ 61 :> "KEY_EQUALS" @@
    65288 :> "KEY_BACKSPACE" @@ 65379 :> "KEY_INSERT" @@ 65360 :> "KEY_HOME" @@
    65365 :> "KEY_PAGE_UP" @@ 65407 :> "KEY_NUMLOCK" @@
    65455 :> "KEY_NUMPAD_DIVIDE" @@ 65450 :> "KEY_NUMPAD_MULTIPLY" @@
    65453 :> "KEY_NUMPAD_SUBTRACT" @@ 65289 :> "KEY_TAB" @@ 113 :> "KEY_Q" @@
    119 :> "KEY_W" @@ 101 :> "KEY_E" @@ 114 :> "KEY_R" @@ 116 :> "KEY_T" @@
    121 :> "KEY_Y" @@ 117 :> "KEY_U" @@ 105 :> "KEY_I" @@ 111 :> "KEY_O" @@
    112 :> "KEY_P" @@ 91 :> "KEY_LEFT_BRACKET" @@ 93 :> "KEY_RIGHT_BRACKET" @@
    92 :> "KEY_BACKSLASH" @@ 65535 :> "KEY_DELETE" @@ 65367 :> "KEY_END" @@
    65366 :> "KEY_PAGE_DOWN" @@ 65429 :> "KEY_NUMPAD_7" @@
    65431 :> "KEY_NUMPAD_8" @@ 65434 :> "KEY_NUMPAD_9" @@
    65451 :> "KEY_NUMPAD_ADD" @@ 65509 :> "KEY_CAPSLOCK" @@ 97 :> "KEY_A" @@
    115 :> "KEY_S" @@ 100 :> "KEY_D" @@ 102 :> "KEY_F" @@ 103 :> "KEY_G" @@
    104 :> "KEY_H" @@ 106 :> "KEY_J" @@ 107 :> "KEY_K" @@ 108 :> "KEY_L" @@
    59 :> "KEY_SEMICOLON" @@ 39 :> "KEY_APOSTROPHE" @@ 65293 :> "KEY_RETURN" @@
    65430 :> "KEY_NUMPAD_4" @@ 65437 :> "KEY_NUMPAD_5" @@
    65432 :> "KEY_NUMPAD_6" @@ 65505 :> "KEY_LEFT_SHIFT" @@ 122 :> "KEY_Z" @@
    120 :> "KEY_X" @@ 99 :> "KEY_C" @@ 118 :> "KEY_V" @@ 98 :> "KEY_B" @@
    110 :> "KEY_N" @@ 109 :> "KEY_M" @@ 44 :> "KEY_COMMA" @@ 46 :> "KEY_PERIOD" @@
    47 :> "KEY_SLASH" @@ 65506 :> "KEY_RIGHT_SHIFT" @@ 65362 :> "KEY_UP" @@
    65436 :> "KEY_NUMPAD_1" @@ 65433 :> "KEY_NUMPAD_2" @@
    65435 :> "KEY_NUMPAD_3" @@ 65421 :> "KEY_NUMPAD_RETURN" @@
    65507 :> "KEY_LEFT_CTRL" @@ 65513 :> "KEY_LEFT_ALT" @@ 32 :> "KEY_SPACE" @@
    65514 :> "KEY_RIGHT_ALT" @@ 65508 :> "KEY_RIGHT_CTRL" @@ 65361 :> "KEY_LEFT" @@
    65364 :> "KEY_DOWN" @@ 65363 :> "KEY_RIGHT" @@ 65438 :> "KEY_NUMPAD_0" @@
    65439 :> "KEY_NUMPAD_DECIMAL" @@ 65515 :> "KEY_LEFT_SUPER" @@
    65516 :> "KEY_RIGHT_SUPER" @@ 33 :> "KEY_1" @@ 34 :> "KEY_APOSTROPHE" @@
    35 :> "KEY_3" @@ 36 :> "KEY_4" @@ 37 :> "KEY_5" @@ 38 :> "KEY_7" @@
    40 :> "KEY_9" @@ 41 :> "KEY_0" @@ 42 :> "KEY_8" @@ 43 :> "KEY_EQUALS" @@
    58 :> "KEY_SEMICOLON" @@ 60 :> "KEY_COMMA" @@ 62 :> "KEY_PERIOD" @@
    63 :> "KEY_SLASH" @@ 64 :> "KEY_2" @@ 65 :> "KEY_A" @@ 66 :> "KEY_B" @@
    67 :> "KEY_C" @@ 68 :> "KEY_D" @@ 69 :> "KEY_E" @@ 70 :> "KEY_F" @@
    71 :> "KEY_G" @@ 72 :> "KEY_H" @@ 73 :> "KEY_I" @@ 74 :> "KEY_J" @@
    75 :> "KEY_K" @@ 76 :> "KEY_L" @@ 77 :> "KEY_M" @@ 78 :> "KEY_N" @@
    79 :> "KEY_O" @@ 80 :> "KEY_P" @@ 81 :> "KEY_Q" @@ 82 :> "KEY_R" @@
    83 :> "KEY_S" @@ 84 :> "KEY_T" @@ 85 :> "KEY_U" @@ 86 :> "KEY_V" @@
    87 :> "KEY_W" @@ 88 :> "KEY_X" @@ 89 :> "KEY_Y" @@ 90 :> "KEY_Z" @@
    94 :> "KEY_6" @@ 95 :> "KEY_MINUS" @@ 123 :> "KEY_LEFT_BRACKET" @@
    124 :> "KEY_BACKSLASH" @@ 125 :> "KEY_RIGHT_BRACKET" @@ 126 :> "KEY_GRAVE" @@
    65056 :> "KEY_TAB" @@ 65511 :> "KEY_LEFT_ALT" @@ 65512 :> "KEY_RIGHT_ALT"

\* ------------------------------------------------ FieldLocationEvent lookup
\* The forward loop of load_field_location_events from position i on.
RECURSIVE field_location_forward(_, _, _, _)
field_location_forward(event_list, i, source_event_time, found) ==
    IF i > Len(event_list) THEN found
    ELSE IF event_list[i].Name = "FieldLocationEvent"
         THEN field_location_forward(event_list, i + 1, source_event_time,
                                     Append(found, i))
         ELSE IF event_list[i].Timestamp - source_event_time > FieldWindow
              THEN found
              ELSE field_location_forward(event_list, i + 1, source_event_time, found)

\* The backward loop of load_field_location_events from position i down.
RECURSIVE field_location_backward(_, _, _, _)
field_location_backward(event_list, i, source_event_time, found) ==
    IF i < 1 THEN found
    ELSE IF event_list[i].Name = "FieldLocationEvent"
         THEN field_location_backward(event_list, i - 1, source_event_time,
                                      <<i>> \o found)
         ELSE IF source_event_time - event_list[i].Timestamp > FieldWindow
              THEN found
              ELSE field_location_backward(event_list, i - 1, source_event_time, found)

\* load_field_location_events: the positions of the loaded records, in list order.
load_field_location_events(event_list, index) ==
    LET source_event_time == event_list[index + 1].Timestamp
    IN  field_location_backward(event_list, index, source_event_time,
            field_location_forward(event_list, index + 2, source_event_time, << >>))

\* get_field_from_plugin: the first loaded record of the plugin, if any.
get_field_from_plugin(event_list, field_events, plugin_name) ==
    LET hits == {j \in DOMAIN field_events :
                    event_list[field_events[j]].Data.EventSource = plugin_name}
    IN  IF hits = {}
        THEN [field |-> <<"*(unknown)">>, hash |-> << >>, found |-> FALSE]
        ELSE LET j == CHOOSE h \in hits : \A g \in hits : h <= g
                 e == event_list[field_events[j]]
             IN  [field |-> e.Data.FieldText, hash |-> e.Hash, found |-> TRUE,
                  position |-> field_events[j]]

\* The button and click-count vocabularies of FieldMouseEvent and MousePressedEvent.
mouse_button_of(event_button) ==
    IF event_button = 1 THEN <<"Left">>
    ELSE IF event_button = 2 THEN <<"Middle">> ELSE <<"Right">>

mouse_action_of(event_count) ==
    IF event_count = 1 THEN <<"Click">>
    ELSE IF event_count = 2 THEN <<"DoubleClick">> ELSE <<"MultipleClicks">>

\* ----------------------------------------------------- MousePressedEvent
\* MousePressedEvent.generate_inferred_right_click_events
generate_inferred_right_click_events(event_list, index, field, plugin_name) ==
    LET event == event_list[index + 1]
        hash_list == <<event.Hash>>
        menu == internal_plugin_to_grammar[plugin_name]
                    \o <<" : Field(">> \o field \o <<") : ", "Context Menu", " : ">>
        right_click_comment ==
            set_sentence(NewInteraction, <<"Mouse">>, <<"Left Click">>,
                         menu \o <<"Set Comment...">>, <<"Open(CommentPlugin)">>)
        right_click_relabel ==
            set_sentence(NewInteraction, <<"Mouse">>, <<"Left Click">>,
                         menu \o <<"relabel">>, <<"Open(RelabelPlugin)">>)
    IN  <<GrammarEvent(right_click_comment, TRUE, hash_list, event.Timestamp,
                       event.Event),
          GrammarEvent(right_click_relabel, TRUE, hash_list, event.Timestamp,
                       event.Event)>>

\* The hash_list of the statement MousePressedEvent.parse_event builds itself.
pressed_core_hash_list(event, has_tool_action, hash_from_field) ==
    IF has_tool_action THEN <<event.Hash, hash_from_field>> ELSE <<event.Hash>>

\* MousePressedEvent.parse_event
MousePressedEvent_parse_event(event_list, index) ==
    LET event == event_list[index + 1]
        event_data == event.Data
        plugin_name == event_data.EventSource
        mouse_button == mouse_button_of(event_data.MouseButton)
        popup == mouse_button = <<"Right">> /\ event_data.IsPopupTrigger
        f == get_field_from_plugin(event_list,
                                   load_field_location_events(event_list, index),
                                   plugin_name)
        plugin == internal_plugin_to_grammar[plugin_name]
        tool_action == IF popup
                       THEN plugin \o <<" : Field(">> \o f.field
                                   \o <<") : ", "Context Menu">>
                       ELSE << >>
        tool_context == IF popup
                        THEN plugin \o <<" : Field(">> \o f.field \o <<")">>
                        ELSE plugin
        inferred == IF popup
                    THEN generate_inferred_right_click_events(event_list, index,
                                                              f.field, plugin_name)
                    ELSE << >>
        input_action == mouse_button \o <<" ">>
                            \o mouse_action_of(event_data.ClickCount)
        i1 == set_fragment(NewInteraction, <<"Mouse">>, "INPUT_DEVICE")
        i2 == set_fragment(i1, input_action, "INPUT_ACTION")
        i3 == set_fragment(i2, tool_context, "TOOL_CONTEXT")
        i4 == IF tool_action # << >> THEN set_fragment(i3, tool_action, "ACTION")
              ELSE i3
        grammar_event_core ==
            GrammarEvent(i4, FALSE,
                         pressed_core_hash_list(event, tool_action # << >>, f.hash),
                         event.Timestamp, event.Event)
    IN  IF ~Has(internal_plugin_to_grammar, plugin_name)
        THEN IF popup THEN Raise("TypeError", event_list)
             ELSE Raise("exit", event_list)
        ELSE ReturnList(<<grammar_event_core>> \o inferred, event_list)

\* ----------------------------------------------------------- WindowEvent
\* create_mouse_entry_sentence / create_mouse_exit_sentence / create_mouse_click_sentence
window_sentence(event, input_action) ==
    LET i1 == set_fragment(NewInteraction, <<"Mouse">>, "INPUT_DEVICE")
        i2 == set_fragment(i1, input_action, "INPUT_ACTION")
        i3 == set_fragment(i2, event.Data.WindowName, "TOOL_CONTEXT")
    IN  <<GrammarEvent(i3, FALSE, <<event.Hash>>, event.Timestamp, event.Event)>>

click_action_of(event_type) ==
    IF event_type = "LeftClick" THEN <<"Left Click">>
    ELSE IF event_type = "RightClick" THEN <<"Right Click">>
    ELSE IF event_type = "MiddleClick" THEN <<"Middle PressDown">>
    ELSE <<"Move">>

\* WindowEvent.parse_event
WindowEvent_parse_event(event_list, index) ==
    LET event == event_list[index + 1]
        event_type == event.Data.EventType
    IN  IF event.Consumed THEN ReturnNone(event_list)
        ELSE IF event_type = "MouseEntry"
             THEN ReturnList(window_sentence(event, <<"Move : Enter">>),
                             Consume(event_list, {index + 1}))
        ELSE IF event_type = "MouseExit"
             THEN ReturnList(window_sentence(event, <<"Move : Exit">>),
                             Consume(event_list, {index + 1}))
        ELSE ReturnList(window_sentence(event, click_action_of(event_type)),
                        event_list)

\* ----------------------------------------------------------- HeaderEvent
\* dict.get with "" substituted for a missing field.
get_or_empty(data, field) == IF field \in DOMAIN data THEN data[field] ELSE << >>

\* HeaderEvent.parse_event
HeaderEvent_parse_event(event_list, index) ==
    LET header_event == event_list[index + 1]
        header_data == header_event.Data
        header_menu_item == get_or_empty(header_data, "MenuItem")
        header_submenu_item == get_or_empty(header_data, "SubMenuItem")
        header_meta_data ==
            IF header_menu_item # << >>
            THEN IF header_submenu_item # << >>
                 THEN header_menu_item \o <<" : ">> \o header_submenu_item
                 ELSE header_menu_item
            ELSE << >>
        tool_context_fragment ==
            IF header_meta_data # << >>
            THEN <<"Toolbar : ">> \o header_data.Header \o <<" : ">> \o header_meta_data
            ELSE <<"Toolbar : ">> \o header_data.Header
        i1 == set_fragment(NewInteraction, <<"Mouse">>, "INPUT_DEVICE")
        i2 == set_fragment(i1, click_action_of(header_data.EventType), "INPUT_ACTION")
        i3 == set_fragment(i2, tool_context_fragment, "TOOL_CONTEXT")
    IN  ReturnList(<<GrammarEvent(i3, FALSE, <<header_event.Hash>>,
                                  header_event.Timestamp, header_event.Event)>>,
                   event_list)

\* ------------------------------------------------------- FieldMouseEvent
\* reversed(list)
Reverse(s) == [j \in 1..Len(s) |-> s[Len(s) + 1 - j]]

\* selection_changed[plugin_name] = field_event on a dict kept as a sequence of
\* <<key, value>> in insertion order.
dict_set(d, key, value) ==
    IF \E j \in DOMAIN d : d[j][1] = key
    THEN [j \in DOMAIN d |-> IF d[j][1] = key THEN <<key, value>> ELSE d[j]]
    ELSE Append(d, <<key, value>>)

\* The first loop of create_left_click_tool_action_fragment: one retained
\* FieldLocationEvent position per plugin, consumed ones skipped.
RECURSIVE selection_loop(_, _, _)
selection_loop(event_list, field_location_events, selection_changed) ==
    IF field_location_events = << >> THEN selection_changed
    ELSE LET p == Head(field_location_events)
         IN  IF event_list[p].Consumed
             THEN selection_loop(event_list, Tail(field_location_events),
                                 selection_changed)
             ELSE selection_loop(event_list, Tail(field_location_events),
                                 dict_set(selection_changed,
                                          event_list[p].Data.EventSource, p))

\* A variant of selection_order that never reverses the loaded records.
selection_order_forward(field_location_events, mouse_action) ==
    field_location_events

\* The iteration order create_left_click_tool_action_fragment gives the loaded
\* records: reversed for a single click.
selection_order(field_location_events, mouse_action) ==
    IF mouse_action = <<"Click">> THEN Reverse(field_location_events)
    ELSE field_location_events

selection_changed_of(event_list, index, mouse_action) ==
    selection_loop(event_list,
                   selection_order(load_field_location_events(event_list, index),
                                   mouse_action),
                   << >>)

\* A variant of after_selection in which the retained records are marked
\* consumed.
after_selection_consuming(event_list, items) ==
    Consume(event_list, {items[j][2] : j \in DOMAIN items})

\* The records after the second loop of create_left_click_tool_action_fragment
\* has used the retained ones: the assignment of Consumed is commented out.
after_selection(event_list, items) == event_list

\* The second loop of create_left_click_tool_action_fragment.
RECURSIVE tool_action_loop(_, _, _, _)
tool_action_loop(event_list, items, tool_action, hash_list) ==
    IF items = << >> THEN [tool_action |-> tool_action, hash_list |-> hash_list]
    ELSE LET plugin_name == Head(items)[1]
             field_event == event_list[Head(items)[2]]
             mod == IF tool_action = << >> THEN << >> ELSE <<" && ">>
         IN  tool_action_loop(event_list, Tail(items),
                 tool_action \o mod \o internal_plugin_to_grammar[plugin_name]
                     \o <<" : SelectionChanged : ", "Field(">>
                     \o field_event.Data.FieldText \o <<")">>,
                 Append(hash_list, field_event.Hash))

\* FieldMouseEvent.create_left_click_tool_action_fragment
create_left_click_tool_action_fragment(event_list, index, mouse_action) ==
    LET items == selection_changed_of(event_list, index, mouse_action)
    IN  IF \E j \in DOMAIN items : ~Has(internal_plugin_to_grammar, items[j][1])
        THEN [raised |-> TRUE]
        ELSE [raised |-> FALSE] @@ tool_action_loop(event_list, items, << >>, << >>)

\* FieldMouseEvent.create_mouse_wheel_click_tool_action_fragment
create_mouse_wheel_click_tool_action_fragment(event_list, index) ==
    LET event_data == event_list[index + 1].Data
    IN  internal_plugin_to_grammar[event_data.EventSource]
            \o <<" : ", " SetHighlight(">> \o event_data.FieldText \o <<")">>

\* FieldMouseEvent.parse_event
FieldMouseEvent_parse_event(event_list, index) ==
    LET event == event_list[index + 1]
        event_data == event.Data
        plugin_name == event_data.EventSource
        mouse_button == mouse_button_of(event_data.MouseButton)
        mouse_action == mouse_action_of(event_data.ClickCount)
        input_action == mouse_button \o <<" ">> \o mouse_action
        tool_context == internal_plugin_to_grammar[plugin_name]
                            \o <<" : ", "Field(">> \o event_data.FieldText \o <<")">>
        left == create_left_click_tool_action_fragment(event_list, index, mouse_action)
        tool_action ==
            IF mouse_button = <<"Left">> THEN left.tool_action
            ELSE IF mouse_button = <<"Middle">>
                 THEN create_mouse_wheel_click_tool_action_fragment(event_list, index)
                 ELSE << >>
        hash_list == (IF mouse_button = <<"Left">> THEN left.hash_list ELSE << >>)
                         \o <<event.Hash>>
        i1 == set_fragment(NewInteraction, <<"Mouse">>, "INPUT_DEVICE")
        i2 == set_fragment(i1, input_action, "INPUT_ACTION")
        i3 == set_fragment(i2, tool_context, "TOOL_CONTEXT")
        i4 == IF tool_action # << >> THEN set_fragment(i3, tool_action, "ACTION")
              ELSE i3
    IN  IF ~Has(internal_plugin_to_grammar, plugin_name)
        THEN Raise("TypeError", event_list)
        ELSE IF mouse_button = <<"Left">> /\ left.raised
             THEN Raise("TypeError", event_list)
        ELSE ReturnList(<<GrammarEvent(i4, FALSE, hash_list, event.Timestamp,
                                       event.Event)>>,
                        IF mouse_button = <<"Left">>
                        THEN after_selection(event_list,
                                 selection_changed_of(event_list, index, mouse_action))
                        ELSE event_list)

\* ------------------------------------------------------- FieldInputEvent
\* The modifier prefix and key name FieldInputEvent.parse_event composes.
keys_pressed_of(event_data, key_pressed) ==
    (IF event_data.CtrlDown THEN <<"CTRL ">> ELSE << >>)
        \o (IF event_data.ShiftDown THEN <<"SHIFT ">> ELSE << >>)
        \o (IF event_data.AltDown THEN <<"ALT ">> ELSE << >>)
        \o <<key_pressed, " ">>

\* FieldInputEvent.parse_event
FieldInputEvent_parse_event(event_list, index) ==
    LET event == event_list[index + 1]
        event_data == event.Data
        event_source == event_data.EventSource
        key_code == event_data.KeyCode
        tool_context == internal_plugin_to_grammar[event_source]
                            \o <<" : ", "Field(">> \o event_data.FieldText \o <<")">>
        i1 == set_fragment(NewInteraction, <<"Keyboard">>, "INPUT_DEVICE")
        i2 == set_fragment(i1, keys_pressed_of(event_data,
                                   keyboard_scan_code_mapping[key_code]),
                           "INPUT_ACTION")
        i3 == set_fragment(i2, tool_context, "TOOL_CONTEXT")
    IN  IF ~Has(keyboard_scan_code_mapping, key_code) THEN ReturnNone(event_list)
        ELSE IF ~Has(internal_plugin_to_grammar, event_source)
             THEN Raise("TypeError", event_list)
        ELSE ReturnList(<<GrammarEvent(i3, FALSE, <<event.Hash>>, event.Timestamp,
                                       event.Event)>>, event_list)

\* --------------------------------- MouseEnteredEvent / MouseExitedEvent
\* MouseEnteredEvent.parse_event and MouseExitedEvent.parse_event, which differ
\* in the action fragment only.
mouse_crossing_parse_event(event_list, index, input_action) ==
    LET event == event_list[index + 1]
        plugin_name == event.Data.EventSource
        i1 == set_fragment(NewInteraction, <<"Mouse">>, "INPUT_DEVICE")
        i2 == set_fragment(i1, input_action, "INPUT_ACTION")
        i3 == set_fragment(i2, internal_plugin_to_grammar[plugin_name], "TOOL_CONTEXT")
    IN  IF ~Has(internal_plugin_to_grammar, plugin_name)
        THEN Raise("exit", event_list)
        ELSE ReturnList(<<GrammarEvent(i3, FALSE, <<event.Hash>>, event.Timestamp,
                                       event.Event)>>, event_list)

MouseEnteredEvent_parse_event(event_list, index) ==
    mouse_crossing_parse_event(event_list, index, <<"Move : Enter">>)

MouseExitedEvent_parse_event(event_list, index) ==
    mouse_crossing_parse_event(event_list, index, <<"Move : Exit">>)

\* ------------------------------------------------------------ MouseEvent
\* MouseEvent.parse_event, the converter EventParser holds and never calls.  It
\* reads Data["Name"], and it hands the record's hash over as it is, not in a
\* list.
MouseEvent_parse_event(event_list, index) ==
    LET event == event_list[index + 1]
        event_data == event.Data
        moved == "Name" \in DOMAIN event_data /\ event_data.Name = "MOVE"
        input_action ==
            IF moved
            THEN <<"Move", " ", "(">> \o str(event_data.X) \o <<", ">>
                     \o str(event_data.Y) \o <<")">>
            ELSE lower_capitalize(event_data.Button) \o <<" ", "Click">>
        i1 == set_fragment(NewInteraction, <<"Mouse">>, "INPUT_DEVICE")
        i2 == set_fragment(i1, input_action, "INPUT_ACTION")
    IN  ReturnList(<<GrammarEvent(i2, FALSE, event.Hash, event.Timestamp,
                                  event.Event)>>, event_list)

\* ----------------------------------------------------------- EventParser
\* The categories EventParser.parse_event routes.
RoutedNames ==
    {"KeyboardEvent", "HeaderEvent", "WindowEvent", "FieldMouseEvent",
     "MousePressedEvent", "FieldInputEvent", "GhidraProgramActivatedEvent",
     "VerticalScrollbarAdjustmentEvent", "MouseEnteredEvent", "MouseExitedEvent"}

\* A variant of unrouted that fails on a category without a branch.
unrouted_raises(event_list, index) == Raise("TypeError", event_list)

\* A variant of unrouted with a branch for MouseEvent.
unrouted_but_mouse(event_list, index) ==
    IF event_list[index + 1].Name = "MouseEvent"
    THEN MouseEvent_parse_event(event_list, index)
    ELSE ReturnNone(event_list)

\* EventParser.parse_event when no branch matches: the function ends and
\* returns None.
unrouted(event_list, index) == ReturnNone(event_list)

\* EventParser.parse_event on a buffer whose cursor is on a record.
route(event_list, index) ==
    LET event_name == event_list[index + 1].Name
    IN  CASE event_name = "KeyboardEvent" ->
                KeyboardEvent_parse_event(event_list, index)
          [] event_name = "HeaderEvent" ->
                HeaderEvent_parse_event(event_list, index)
          [] event_name = "WindowEvent" ->
                WindowEvent_parse_event(event_list, index)
          [] event_name = "FieldMouseEvent" ->
                FieldMouseEvent_parse_event(event_list, index)
          [] event_name = "MousePressedEvent" ->
                MousePressedEvent_parse_event(event_list, index)
          [] event_name = "FieldInputEvent" ->
                FieldInputEvent_parse_event(event_list, index)
          [] event_name = "GhidraProgramActivatedEvent" ->
                GhidraProgramActivatedEvent_parse_event(event_list, index)
          [] event_name = "VerticalScrollbarAdjustmentEvent" ->
                VerticalScrollbarAdjustmentEvent_parse_event(event_list, index)
          [] event_name = "MouseEnteredEvent" ->
                MouseEnteredEvent_parse_event(event_list, index)
          [] event_name = "MouseExitedEvent" ->
                MouseExitedEvent_parse_event(event_list, index)
          [] OTHER -> unrouted(event_list, index)

\* EventParser.parse_event: buffer.current().get("Name") fails when current()
\* gave None, and current() itself fails while index_ is None.
parse_event(event_list, index) ==
    IF index = NoneIndex THEN Raise("TypeError", event_list)
    ELSE IF index >= Len(event_list) THEN Raise("AttributeError", event_list)
    ELSE route(event_list, index)

\* ------------------------------------------------------ telemetry source
\* The ingestion side supplies entries {name: data} in timestamp order.  Each
\* scenario is a small alphabet of entries and of gaps to the previous entry.
Kind(name, payload) == [name |-> name, payload |-> payload]

KeyKinds ==
    {Kind("KeyboardEvent", [EventName |-> "DOWN", Key |-> k]) :
        k \in {"KEY_A", "KEY_B", "KEY_BACKSPACE", "KEY_F1"}}
    \cup {Kind("KeyboardEvent", [EventName |-> "UP", Key |-> "KEY_A"]),
          Kind("MouseEvent", [EventName |-> "MOVE", Button |-> "LEFT"])}

ScrollKinds ==
    {Kind("VerticalScrollbarAdjustmentEvent",
          [EventSource |-> "CavaDecompilePlugin", ScrollbarLocation |-> l]) :
        l \in {10, 20}}
    \cup {Kind("VerticalScrollbarAdjustmentEvent",
               [EventSource |-> "CavaCodeBrowserPlugin", ScrollbarLocation |-> 30]),
          Kind("VerticalScrollbarAdjustmentEvent",
               [EventSource |-> "UnlistedPlugin", ScrollbarLocation |-> 40]),
          Kind("MouseEvent", [EventName |-> "MOVE", Button |-> "LEFT"])}

ProgramKinds ==
    {Kind("GhidraProgramActivatedEvent", [ProgramName |-> <<"crackme">>]),
     Kind("GhidraProgramActivatedEvent", [ProgramName |-> NoProgramName]),
     Kind("MouseEvent", [EventName |-> "CLICK", Button |-> "LEFT"]),
     Kind("MouseEvent", [EventName |-> "CLICK", Button |-> "MIDDLE"]),
     Kind("MouseEvent", [EventName |-> "MOVE", Button |-> "LEFT"])}

PressKinds ==
    {Kind("MousePressedEvent",
          [MouseButton |-> 3, ClickCount |-> 1, IsPopupTrigger |-> TRUE,
           EventSource |-> "CavaDecompilePlugin"]),
     Kind("MousePressedEvent",
          [MouseButton |-> 3, ClickCount |-> 1, IsPopupTrigger |-> FALSE,
           EventSource |-> "CavaDecompilePlugin"]),
     Kind("MousePressedEvent",
          [MouseButton |-> 1, ClickCount |-> 2, IsPopupTrigger |-> FALSE,
           EventSource |-> "UnlistedPlugin"]),
     Kind("MousePressedEvent",
          [MouseButton |-> 1, ClickCount |-> 1, IsPopupTrigger |-> TRUE,
           EventSource |-> "CavaDecompilePlugin"]),
     Kind("MousePressedEvent",
          [MouseButton |-> 2, ClickCount |-> 3, IsPopupTrigger |-> FALSE,
           EventSource |-> "CavaCodeBrowserPlugin"]),
     Kind("FieldLocationEvent",
          [EventSource |-> "CavaDecompilePlugin", FieldText |-> <<"main">>]),
     Kind("FieldLocationEvent",
          [EventSource |-> "CavaCodeBrowserPlugin", FieldText |-> <<"00401000">>])}

WindowKinds ==
    {Kind("WindowEvent", [EventType |-> t, WindowName |-> <<"Decompiler">>]) :
        t \in {"MouseEntry", "MouseExit", "LeftClick"}}

FieldKinds ==
    {Kind("FieldMouseEvent",
          [MouseButton |-> 1, ClickCount |-> 1, FieldText |-> <<"main">>,
           EventSource |-> "CavaDecompilePlugin"]),
     Kind("FieldMouseEvent",
          [MouseButton |-> 1, ClickCount |-> 2, FieldText |-> <<"main">>,
           EventSource |-> "CavaDecompilePlugin"]),
     Kind("FieldMouseEvent",
          [MouseButton |-> 2, ClickCount |-> 1, FieldText |-> <<"main">>,
           EventSource |-> "UnlistedPlugin"]),
     Kind("FieldLocationEvent",
          [EventSource |-> "CavaDecompilePlugin", FieldText |-> <<"main">>]),
     Kind("FieldLocationEvent",
          [EventSource |-> "CavaCodeBrowserPlugin", FieldText |-> <<"00401000">>])}

\* Single-record categories, each from a listed and from an unlisted
\* sub-component, and one category EventParser.parse_event has no branch for.
PanelKinds ==
    {Kind(n, [EventSource |-> s]) :
        n \in {"MouseEnteredEvent", "MouseExitedEvent"},
        s \in {"CavaDecompilePlugin", "UnlistedPlugin"}}
    \cup {Kind("FieldInputEvent",
               [EventSource |-> s, KeyCode |-> 97, CtrlDown |-> TRUE,
                ShiftDown |-> FALSE, AltDown |-> FALSE, FieldText |-> <<"main">>]) :
            s \in {"CavaDecompilePlugin", "UnlistedPlugin"}}
    \cup {Kind("FunctionGraphVertexClickEvent", [EventSource |-> "CavaDecompilePlugin"])}

\* Key presses in a field: a mapped key code under every combination of the
\* three modifier flags, a key code without a mapping, and a source without a
\* display name.
FieldKeyKinds ==
    {Kind("FieldInputEvent",
          [EventSource |-> "CavaDecompilePlugin", KeyCode |-> 97, CtrlDown |-> c,
           ShiftDown |-> sh, AltDown |-> a, FieldText |-> <<"main">>]) :
        c \in BOOLEAN, sh \in BOOLEAN, a \in BOOLEAN}
    \cup {Kind("FieldInputEvent",
               [EventSource |-> "CavaDecompilePlugin", KeyCode |-> 1, CtrlDown |-> TRUE,
                ShiftDown |-> TRUE, AltDown |-> TRUE, FieldText |-> <<"main">>]),
          Kind("FieldInputEvent",
               [EventSource |-> "UnlistedPlugin", KeyCode |-> 97, CtrlDown |-> FALSE,
                ShiftDown |-> TRUE, AltDown |-> FALSE, FieldText |-> <<"main">>])}

Scenarios ==
    {"keys", "scroll", "program", "press", "window", "field", "panel", "fieldkey"}

Kinds(s) ==
    CASE s = "keys" -> KeyKinds
      [] s = "scroll" -> ScrollKinds
      [] s = "program" -> ProgramKinds
      [] s = "press" -> PressKinds
      [] s = "window" -> WindowKinds
      [] s = "field" -> FieldKinds
      [] s = "panel" -> PanelKinds
      [] s = "fieldkey" -> FieldKeyKinds

\* Gaps on both sides of the scenario's policy threshold (hundredths of a
\* second); a gap of 0 is an entry with the timestamp of the one before it.
Gaps(s) ==
    CASE s = "keys" -> {40, 91}
      [] s = "scroll" -> {200, 500}
      [] s = "program" -> {50, 101}
      [] s = "press" -> {100, 151}
      [] s = "window" -> {0, 10}
      [] s = "field" -> {100, 151}
      [] s = "panel" -> {10}
      [] s = "fieldkey" -> {10}

\* The raw entry of a kind at time t.
RawEvent(kind, t) ==
    [name |-> kind.name, data |-> kind.payload @@ [Timestamp |-> t]]

\* The entries the source can supply next.
NextEvents == {RawEvent(k, now + g) : k \in Kinds(scenario), g \in Gaps(scenario)}

\* Window sizes the batch driver is run with.
WindowSizes == {0, 100, 400}

\* ---------------------------------------------------------------- state
NoCall == [status |-> "no call"]

\* The caller's view of a parse_event return: the status and the statements.
Returned(r) == [status |-> r.status, list |-> r.list]

\* GrammarEvent.__str__, the line generate_output_file writes.
GrammarEvent_str(g) ==
    [Sentence |-> Interaction_str(g.sentence_), Timestamp |-> g.timestamp_,
     Inferred |-> g.inferred_, Hashes |-> g.hash_list_]

\* A variant of generate_output_file that opens the file for writing anew.
generate_output_file_truncating(file, statements) ==
    [j \in DOMAIN statements |-> GrammarEvent_str(statements[j])]

\* generate_output_file: the lines appended to the output file.
generate_output_file(file, statements) ==
    file \o [j \in DOMAIN statements |-> GrammarEvent_str(statements[j])]

InitCommon ==
    /\ events_ = << >>              \* HashBuffer.__init__
    /\ index_ = NoneIndex
    /\ grammar_statements = NoCall
    /\ grammar_events = << >>
    /\ output = << >>
    /\ observed = NoCall
    /\ op = "init"
    /\ now = 0
    /\ nread = 0
    /\ origin = 0
    /\ dispatched = << >>
    /\ keyed = {}
    /\ interaction = NewInteraction
    /\ rendered = << >>

\* ----------------------------------------------- buffer operations (API)
Init ==
    /\ InitCommon
    /\ pc = "api"
    /\ buffer_size = 0
    /\ scenario \in Scenarios

\* HashBuffer.add
add(event_list, index, event) ==
    [events |-> Append(event_list, mod_event(event)),
     index |-> IF index = NoneIndex THEN 0 ELSE index]

\* A variant of next without the has_next test.
next_unchecked(event_list, index) == index + 1

\* HashBuffer.next
next(event_list, index) ==
    IF has_next(event_list, index) THEN index + 1 ELSE index

\* A variant of purge whose slice starts one record later.
purge_from_next(event_list, index, ending_index) ==
    IF ending_index >= Len(event_list)
    THEN [ok |-> FALSE, events |-> event_list, index |-> index]
    ELSE [ok |-> TRUE,
          events |-> SubSeq(event_list, ending_index + 2, Len(event_list)),
          index |-> 0]

\* A variant of purge that refuses only an index past the length.
purge_up_to_length(event_list, index, ending_index) ==
    IF ending_index > Len(event_list)
    THEN [ok |-> FALSE, events |-> event_list, index |-> index]
    ELSE [ok |-> TRUE,
          events |-> SubSeq(event_list, ending_index + 1, Len(event_list)),
          index |-> 0]

\* HashBuffer.purge: ok = FALSE is the refused request (return False).
purge(event_list, index, ending_index) ==
    IF ending_index >= Len(event_list)
    THEN [ok |-> FALSE, events |-> event_list, index |-> index]
    ELSE [ok |-> TRUE,
          events |-> SubSeq(event_list, ending_index + 1, Len(event_list)),
          index |-> 0]

\* The positions a key-entry statement returned by this call was rendered from.
keyed_by(event_list, index, r) ==
    IF /\ has_next(event_list, index)
       /\ event_list[index + 1].Name = "KeyboardEvent"
       /\ r.status = "list"
    THEN LET run == typed_run(index, get_all_typing_events(event_list, index))
         IN  {run[j] : j \in DOMAIN run}
    ELSE {}

Add ==
    /\ pc = "api"
    /\ nread < MaxEvents
    /\ \E e \in NextEvents :
        /\ events_' = add(events_, index_, e).events
        /\ index_' = add(events_, index_, e).index
        /\ now' = e.data.Timestamp
    /\ nread' = nread + 1
    /\ op' = "add"
    /\ grammar_statements' = NoCall
    /\ observed' = NoCall
    /\ UNCHANGED <<driverVars, sentenceVars, scenario, origin, keyed>>

Advance ==
    /\ pc = "api"
    /\ index_' = next(events_, index_)
    /\ op' = "next"
    /\ grammar_statements' = NoCall
    /\ observed' = NoCall
    /\ UNCHANGED <<events_, driverVars, sentenceVars, scenario, now, nread, origin, keyed>>

\* A variant of Current that also moves the cursor (a consuming read).
Current_advancing ==
    /\ pc = "api"
    /\ observed' = current(events_, index_)
    /\ index_' = next(events_, index_)
    /\ op' = "current"
    /\ grammar_statements' = NoCall
    /\ UNCHANGED <<events_, driverVars, sentenceVars, scenario, now, nread, origin,
                   keyed>>

\* HashBuffer.current called by a policy or a client.
Current ==
    /\ pc = "api"
    /\ observed' = current(events_, index_)
    /\ op' = "current"
    /\ grammar_statements' = NoCall
    /\ UNCHANGED <<bufferVars, driverVars, sentenceVars, scenario, now, nread, origin,
                   keyed>>

\* HashBuffer.purge called by a client; observed keeps the argument and what
\* the call returned (False when refused, nothing otherwise).
Purge ==
    /\ pc = "api"
    /\ \E ending_index \in 0..MaxEvents :
        LET r == purge(events_, index_, ending_index)
        IN  /\ events_' = r.events
            /\ index_' = r.index
            /\ origin' = IF r.ok THEN origin + ending_index ELSE origin
            /\ op' = IF r.ok THEN "purge" ELSE "purge refused"
            /\ observed' = [status |-> "purge", ending_index |-> ending_index,
                             returned |-> IF r.ok THEN "None" ELSE "False"]
            /\ keyed' = IF r.ok
                        THEN {p - ending_index : p \in {q \in keyed : q > ending_index}}
                        ELSE keyed
    /\ grammar_statements' = NoCall
    /\ UNCHANGED <<driverVars, sentenceVars, scenario, now, nread>>

\* HashBuffer.reset_index
ResetIndex ==
    /\ pc = "api"
    /\ index_' = 0
    /\ op' = "reset_index"
    /\ grammar_statements' = NoCall
    /\ observed' = NoCall
    /\ UNCHANGED <<events_, driverVars, sentenceVars, scenario, now, nread, origin, keyed>>

\* A variant of Dispatch that also moves the cursor to the next record.
Dispatch_advancing ==
    /\ pc = "api"
    /\ LET r == parse_event(events_, index_)
       IN  /\ events_' = r.events
           /\ grammar_statements' = Returned(r)
           /\ keyed' = keyed \cup keyed_by(events_, index_, r)
    /\ index_' = next(events_, index_)
    /\ op' = "parse_event"
    /\ observed' = NoCall
    /\ UNCHANGED <<driverVars, sentenceVars, scenario, now, nread, origin>>

\* One call of EventParser.parse_event on the buffer.
Dispatch ==
    /\ pc = "api"
    /\ LET r == parse_event(events_, index_)
       IN  /\ events_' = r.events
           /\ grammar_statements' = Returned(r)
           /\ keyed' = keyed \cup keyed_by(events_, index_, r)
    /\ op' = "parse_event"
    /\ observed' = NoCall
    /\ UNCHANGED <<index_, driverVars, sentenceVars, scenario, now, nread, origin>>

Next == Add \/ Advance \/ Current \/ Purge \/ ResetIndex \/ Dispatch

Spec == Init /\ [][Next]_vars

\* The buffer under add, next, purge and parse_event alone.
BufferNext == Add \/ Advance \/ Purge \/ Dispatch

BufferSpec == Init /\ [][BufferNext]_vars

\* ------------------------------------------------------- batch driver
\* generate_grammar_statements of cava-gen.py.  pc is "read" at the head of the
\* for loop over the input lines, "drain" in the while loop of a flush, "final"
\* in the while loop after the last line, "done" after the last write and
\* "aborted" when a converter ended the process.
BatchInit ==
    /\ InitCommon
    /\ pc = "read"
    /\ buffer_size \in WindowSizes
    /\ scenario \in Scenarios

\* A variant of flush_due that also fires when the time frame equals the size.
flush_due_inclusive(event_list, window) ==
    get_buffer_time_frame(event_list) >= window

\* The test that starts a flush after an add.
flush_due(event_list, window) == get_buffer_time_frame(event_list) > window

\* for event_string in json_events: add, then test the time frame.
ReadLine ==
    /\ pc = "read"
    /\ nread < MaxEvents
    /\ \E e \in NextEvents :
        LET a == add(events_, index_, e)
        IN  /\ events_' = a.events
            /\ index_' = a.index
            /\ now' = e.data.Timestamp
            /\ pc' = IF flush_due(a.events, buffer_size) THEN "drain" ELSE "read"
    /\ nread' = nread + 1
    /\ op' = "add"
    /\ grammar_statements' = NoCall
    /\ UNCHANGED <<grammar_events, output, observed, buffer_size, scenario, origin,
                   dispatched, keyed, sentenceVars>>

\* One turn of either while loop: parse_event on the cursor's record, next(),
\* and the statements appended to grammar_events.
DrainStep ==
    /\ pc \in {"drain", "final"}
    /\ has_next(events_, index_)
    /\ LET r == parse_event(events_, index_)
       IN  /\ events_' = r.events
           /\ grammar_statements' = Returned(r)
           /\ keyed' = keyed \cup keyed_by(events_, index_, r)
           /\ IF r.status \in {"list", "None"}
              THEN /\ index_' = next(events_, index_)
                   /\ grammar_events' = IF r.status = "list"
                                        THEN grammar_events \o r.list
                                        ELSE grammar_events
                   /\ pc' = pc
              ELSE /\ index_' = index_
                   /\ grammar_events' = grammar_events
                   /\ pc' = "aborted"
    /\ dispatched' = Append(dispatched, origin + index_ + 1)
    /\ op' = "parse_event"
    /\ UNCHANGED <<output, observed, buffer_size, scenario, now, nread, origin,
                   sentenceVars>>

\* A variant of Flush that writes the statements out and keeps the buffer.
Flush_keeping_buffer ==
    /\ pc = "drain"
    /\ ~has_next(events_, index_)
    /\ output' = generate_output_file(output, grammar_events)
    /\ grammar_events' = << >>
    /\ grammar_statements' = NoCall
    /\ pc' = "read"
    /\ op' = "flush"
    /\ UNCHANGED <<bufferVars, origin, keyed, observed, buffer_size, scenario, now,
                   nread, dispatched, sentenceVars>>

\* The end of a flush: a new HashBuffer, the statements written out.
Flush ==
    /\ pc = "drain"
    /\ ~has_next(events_, index_)
    /\ events_' = << >>
    /\ index_' = NoneIndex
    /\ origin' = origin + Len(events_)
    /\ keyed' = {}
    /\ output' = generate_output_file(output, grammar_events)
    /\ grammar_events' = << >>
    /\ grammar_statements' = NoCall
    /\ pc' = "read"
    /\ op' = "flush"
    /\ UNCHANGED <<observed, buffer_size, scenario, now, nread, dispatched,
                   sentenceVars>>

\* The input file has no more lines.
EndOfInput ==
    /\ pc = "read"
    /\ pc' = "final"
    /\ op' = "eof"
    /\ grammar_statements' = NoCall
    /\ UNCHANGED <<bufferVars, grammar_events, output, observed, buffer_size,
                   scenario, now, nread, origin, dispatched, keyed, sentenceVars>>

\* The last generate_output_file call.
Finish ==
    /\ pc = "final"
    /\ ~has_next(events_, index_)
    /\ output' = generate_output_file(output, grammar_events)
    /\ pc' = "done"
    /\ op' = "write"
    /\ grammar_statements' = NoCall
    /\ UNCHANGED <<bufferVars, grammar_events, observed, buffer_size, scenario, now,
                   nread, origin, dispatched, keyed, sentenceVars>>

BatchNext == ReadLine \/ DrainStep \/ Flush \/ EndOfInput \/ Finish

BatchSpec == BatchInit /\ [][BatchNext]_vars

\* ------------------------------------------------------- sentence model
\* Fragments given to an Interaction.
Fragments == {<< >>, <<"f">>, <<"g">>}

SentenceInit ==
    /\ InitCommon
    /\ pc = "sentence"
    /\ buffer_size = 0
    /\ scenario = "keys"

sentenceFrame == <<bufferVars, grammar_statements, driverVars, observed, scenario,
                   now, nread, origin, keyed>>

SetFragment ==
    /\ pc = "sentence"
    /\ \E fragment \in Fragments, grammar_type \in FragmentTypes :
        interaction' = set_fragment(interaction, fragment, grammar_type)
    /\ op' = "set_fragment"
    /\ UNCHANGED <<rendered, sentenceFrame>>

SetSentence ==
    /\ pc = "sentence"
    /\ \E d \in Fragments, a \in Fragments, c \in Fragments, e \in Fragments :
        interaction' = set_sentence(interaction, d, a, c, e)
    /\ op' = "set_sentence"
    /\ UNCHANGED <<rendered, sentenceFrame>>

Str ==
    /\ pc = "sentence"
    /\ rendered' = Interaction_str(interaction)
    /\ op' = "str"
    /\ UNCHANGED <<interaction, sentenceFrame>>

SentenceNext == SetFragment \/ SetSentence \/ Str

SentenceSpec == SentenceInit /\ [][SentenceNext]_vars

\* =============================================================== properties
\* The record under the cursor exists and is of the given kind.
AtCursor(name) ==
    has_next(events_, index_) /\ events_[index_ + 1].Name = name

\* The step is one call of the dispatcher.
Dispatching == op' = "parse_event"

\* The cursor's place counted in arrival numbers.
ArrivalCursor(o, i) == o + (IF i = NoneIndex THEN 0 ELSE i)

\* C1: under the batch driver the cursor never moves backward, the records are
\* dispatched in arrival order without repetition, and when the driver has
\* stopped every record that was read has been dispatched exactly once.
C1_EveryRecordDispatchedOnce ==
    /\ [][ArrivalCursor(origin', index_') >= ArrivalCursor(origin, index_)]_vars
    /\ [](dispatched = [j \in 1..Len(dispatched) |-> j])
    /\ [](pc \in {"done", "aborted"} => Len(dispatched) = nread)

\* C2: a record whose consumed flag is set keeps it set through every
\* operation for as long as the record stays in the buffer.
C2_ConsumedIsOneWay ==
    [][\A p \in DOMAIN events_ :
        LET q == p - (origin' - origin)
        IN  (events_[p].Consumed /\ q \in DOMAIN events_') => events_'[q].Consumed]_vars

\* A dispatch has run on a record that was already consumed, and the record is
\* still consumed.
C2_Witness ==
    /\ op = "parse_event"
    /\ has_next(events_, index_)
    /\ events_[index_ + 1].Consumed
    /\ grammar_statements.status = "None"

\* C3: after the key-entry policy emitted the statement of a run, a dispatch on
\* any record of that run returns no statement and changes nothing.
C3_NoSecondKeyStatement ==
    [][(/\ Dispatching
        /\ AtCursor("KeyboardEvent")
        /\ (index_ + 1) \in keyed)
       => (grammar_statements'.status = "None" /\ events_' = events_)]_vars

\* A run of at least two keys was rendered and a later dispatch on its last
\* record returned nothing.
C3_Witness ==
    /\ op = "parse_event"
    /\ AtCursor("KeyboardEvent")
    /\ index_ >= 1
    /\ {index_, index_ + 1} \subseteq keyed
    /\ grammar_statements.status = "None"

\* The fold the key-entry statement is rendered by: from the empty string, a
\* mapped key appends its character, backspace and delete drop the last
\* character (nothing on the empty string), any other key changes nothing.
RECURSIVE C4_Fold(_)
C4_Fold(keys) ==
    IF keys = << >> THEN << >>
    ELSE LET before == C4_Fold(SubSeq(keys, 1, Len(keys) - 1))
             key == keys[Len(keys)]
         IN  IF key \in {"KEY_BACKSPACE", "KEY_DELETE"}
             THEN IF before = << >> THEN << >>
                  ELSE SubSeq(before, 1, Len(before) - 1)
             ELSE IF key \in DOMAIN charMapping THEN before \o charMapping[key]
             ELSE before

\* The keys of the run that starts at the cursor, in order.
C4_RunKeys ==
    LET run == typed_run(index_, get_all_typing_events(events_, index_))
    IN  [j \in DOMAIN run |-> events_[run[j]].Data.Key]

\* C4: the action of a key-entry statement is the fold of the keys of its run,
\* so the run a, BACKSPACE, b renders to b.
C4_RenderIsFold ==
    [][(/\ Dispatching
        /\ AtCursor("KeyboardEvent")
        /\ grammar_statements'.status = "list")
       => /\ Len(grammar_statements'.list) = 1
          /\ grammar_statements'.list[1].sentence_.input_action_ = C4_Fold(C4_RunKeys)
          /\ (C4_RunKeys = <<"KEY_A", "KEY_BACKSPACE", "KEY_B">>
                => grammar_statements'.list[1].sentence_.input_action_ = <<"b">>)]_vars

\* The run a, BACKSPACE, b was dispatched and its statement reads b.
C4_Witness ==
    /\ op = "parse_event"
    /\ index_ = 0
    /\ AtCursor("KeyboardEvent")
    /\ C4_RunKeys = <<"KEY_A", "KEY_BACKSPACE", "KEY_B">>
    /\ \A p \in 1..3 : events_[p].Consumed
    /\ grammar_statements.status = "list"
    /\ grammar_statements.list[1].sentence_.input_action_ = <<"b">>

\* The set of identities a statement's provenance holds.
Provenance(g) == {g.hash_list_[j] : j \in DOMAIN g.hash_list_}

\* The number of follow-ups the scrollbar scan takes from the cursor.
ScrollFollowUps == Len(consume_scroll_events(events_, index_).hash_list)

\* Exactly four statements, all inferred, all with the same provenance.
FourInferred(r) ==
    /\ r.status = "list"
    /\ Len(r.list) = 4
    /\ \A j \in 1..4 : r.list[j].inferred_ /\ r.list[j].hash_list_ = r.list[1].hash_list_

\* An unconsumed scrollbar record is under the cursor and is dispatched.
ScrollDispatch ==
    /\ Dispatching
    /\ AtCursor("VerticalScrollbarAdjustmentEvent")
    /\ ~events_[index_ + 1].Consumed

C6_Clicks ==
    {p \in 1..index_ :
        /\ events_[p].Name = "MouseEvent"
        /\ events_[p].Data.EventName = "CLICK"
        /\ events_[index_ + 1].Timestamp - events_[p].Timestamp <= 100}

\* The action fragment borrowed from a click.
C6_Button(click) ==
    CASE click.Data.Button = "LEFT" -> <<"Left">>
      [] click.Data.Button = "MIDDLE" -> <<"Middle">>

C7_Canonical(i) ==
    i.input_device_ \o <<" : ">> \o i.input_action_
        \o (IF i.tool_context_ # << >> THEN <<" > ">> \o i.tool_context_ ELSE << >>)
        \o (IF i.tool_context_ # << >> /\ i.action_ # << >>
            THEN <<" > ">> \o i.action_ ELSE << >>)

\* C7: a rendered Interaction is the canonical string of its four fragments,
\* and it never ends with the separator.
C7_RenderIsCanonical ==
    op = "str" => /\ rendered = C7_Canonical(interaction)
                  /\ rendered[Len(rendered)] # " > "

\* An Interaction with an effect and no context was rendered without the effect.
C7_Witness ==
    /\ op = "str"
    /\ interaction.tool_context_ = << >>
    /\ interaction.action_ # << >>
    /\ interaction.input_action_ # << >>
    /\ rendered = interaction.input_device_ \o <<" : ">> \o interaction.input_action_

\* C8: a call of current() changes neither the cursor nor the records nor
\* their flags, and a call that follows another call with nothing in between
\* returns what the other returned.
C8_CurrentIsIdempotent ==
    [][op' = "current"
       => /\ UNCHANGED <<events_, index_>>
          /\ (op = "current" => observed' = observed)]_vars

\* current() returned a record that is not the first one and that is consumed.
C8_Witness ==
    /\ op = "current"
    /\ index_ >= 1
    /\ observed.status = "event"
    /\ observed.event = events_[index_ + 1]
    /\ observed.event.Consumed

\* C9: a right-button press flagged as popup trigger yields three statements,
\* the observed click with its context-menu effect and then two inferred
\* ones, and the three have the same provenance set.
C9_SharedProvenance ==
    [][(/\ Dispatching
        /\ AtCursor("MousePressedEvent")
        /\ events_[index_ + 1].Data.MouseButton = 3
        /\ events_[index_ + 1].Data.IsPopupTrigger)
       => LET r == grammar_statements'
          IN  /\ r.status = "list"
              /\ Len(r.list) = 3
              /\ ~r.list[1].inferred_
              /\ r.list[1].sentence_.action_ # << >>
              /\ r.list[2].inferred_ /\ r.list[3].inferred_
              /\ Provenance(r.list[2]) = Provenance(r.list[1])
              /\ Provenance(r.list[3]) = Provenance(r.list[1])]_vars

\* C10: an unconsumed key-down under the cursor whose run, follow-ups or not,
\* renders to a string that is not empty yields one observed Keyboard
\* statement with that string as its action.
C10_EveryRunEmits ==
    [][(/\ Dispatching
        /\ AtCursor("KeyboardEvent")
        /\ ~events_[index_ + 1].Consumed
        /\ events_[index_ + 1].Data.EventName = "DOWN"
        /\ C4_Fold(C4_RunKeys) # << >>)
       => LET r == grammar_statements'
          IN  /\ r.status = "list"
              /\ Len(r.list) = 1
              /\ ~r.list[1].inferred_
              /\ r.list[1].sentence_.input_device_ = <<"Keyboard">>
              /\ r.list[1].sentence_.input_action_ = C4_Fold(C4_RunKeys)]_vars

\* C11: the key-entry policy never emits a statement whose action is the
\* empty string.
C11_NoEmptyKeyStatement ==
    [][(Dispatching /\ AtCursor("KeyboardEvent") /\ grammar_statements'.status = "list")
       => \A j \in DOMAIN grammar_statements'.list :
            grammar_statements'.list[j].sentence_.input_action_ # << >>]_vars

\* C12: an unconsumed WindowEvent under the cursor, whichever its event type,
\* yields one statement and is consumed afterwards; a consumed one yields
\* nothing.
C12_WindowEventConsumed ==
    [][(Dispatching /\ AtCursor("WindowEvent"))
       => IF events_[index_ + 1].Consumed
          THEN grammar_statements'.status = "None" /\ events_' = events_
          ELSE /\ grammar_statements'.status = "list"
               /\ Len(grammar_statements'.list) = 1
               /\ events_'[index_ + 1].Consumed]_vars

\* The distance in time between two records of the buffer.
TimeBetween(p, q) ==
    IF events_[p].Timestamp >= events_[q].Timestamp
    THEN events_[p].Timestamp - events_[q].Timestamp
    ELSE events_[q].Timestamp - events_[p].Timestamp

\* C13: every FieldLocationEvent whose identity is in the provenance of a
\* statement of a FieldMouseEvent or MousePressedEvent dispatch is at most
\* 1.5 s away from the record under the cursor.
C13_CompanionWithinWindow ==
    [][(/\ Dispatching
        /\ (AtCursor("FieldMouseEvent") \/ AtCursor("MousePressedEvent"))
        /\ grammar_statements'.status = "list")
       => \A j \in DOMAIN grammar_statements'.list :
            \A p \in DOMAIN events_ :
                (/\ events_[p].Name = "FieldLocationEvent"
                 /\ events_[p].Hash \in Provenance(grammar_statements'.list[j]))
                => TimeBetween(p, index_ + 1) <= 150]_vars

\* A record is under the cursor and EventParser.parse_event has no branch for
\* its category.
UnroutedAtCursor ==
    has_next(events_, index_) /\ events_[index_ + 1].Name \notin RoutedNames

\* C14: a dispatch on a record of a category without a branch returns no
\* statement, fails in no way and changes no record, and the driver moves the
\* cursor one record on and gains no statement.
C14_UnknownCategorySkipped ==
    [][(Dispatching /\ UnroutedAtCursor)
       => /\ grammar_statements'.status = "None"
          /\ events_' = events_
          /\ index_' = index_ + 1
          /\ grammar_events' = grammar_events
          /\ pc' = pc]_vars

\* The driver dispatched a record of a category that is in no branch and in no
\* converter's scan, and stands on the record after it.
C14_Witness ==
    /\ pc \in {"drain", "final"}
    /\ op = "parse_event"
    /\ index_ >= 1
    /\ events_[index_].Name = "FunctionGraphVertexClickEvent"
    /\ grammar_statements.status = "None"
    /\ dispatched # << >>

\* C15 as stated: a dispatch on a MouseEvent yields one statement, not
\* inferred, with device Mouse, and changes no record.
C15_PointerRecordTranslated ==
    [][(Dispatching /\ AtCursor("MouseEvent"))
       => /\ grammar_statements'.status = "list"
          /\ Len(grammar_statements'.list) = 1
          /\ ~grammar_statements'.list[1].inferred_
          /\ grammar_statements'.list[1].sentence_.input_device_ = <<"Mouse">>
          /\ events_' = events_]_vars

\* C15 amended: a dispatch on a MouseEvent yields no statement, fails in no
\* way and changes no record.
C15_PointerRecordNotRouted ==
    [][(Dispatching /\ AtCursor("MouseEvent"))
       => /\ grammar_statements'.status = "None"
          /\ events_' = events_]_vars

\* A click was dispatched between two other records and nothing came back.
C15_Witness ==
    /\ op = "parse_event"
    /\ index_ = 1
    /\ Len(events_) = 3
    /\ AtCursor("MouseEvent")
    /\ events_[2].Data.EventName = "CLICK"
    /\ grammar_statements.status = "None"

\* This step is a call purge(k).
PurgeCalled(k) == observed'.status = "purge" /\ observed'.ending_index = k

\* C16: after purge(k) with 0 <= k < length the buffer holds the records
\* formerly at indices k .. length-1, in order and unchanged, flags included,
\* the cursor is 0 and current() returns the record formerly at index k.
C16_PurgeKeepsSuffix ==
    [][\A k \in 0 .. MaxEvents :
         (PurgeCalled(k) /\ k < Len(events_))
         => /\ Len(events_') = Len(events_) - k
            /\ \A j \in 1 .. Len(events_) - k : events_'[j] = events_[k + j]
            /\ index_' = 0
            /\ current(events_', index_')
                   = [status |-> "event", event |-> events_[k + 1]]]_vars

\* A purge dropped a record and kept two, the second one consumed, with the
\* cursor back on the first.
C16_Witness ==
    /\ op = "purge"
    /\ observed.status = "purge"
    /\ observed.ending_index >= 1
    /\ Len(events_) = 2
    /\ events_[2].Consumed
    /\ index_ = 0

\* C17: purge(k) with k >= length is refused and leaves the records and the
\* cursor as they were, and no purge turns a buffer that holds a record into
\* an empty one.
C17_PurgeRefusedPastEnd ==
    [][\A k \in 0 .. MaxEvents :
         PurgeCalled(k)
         => /\ (k >= Len(events_)
                => /\ observed'.returned = "False"
                   /\ events_' = events_
                   /\ index_' = index_)
            /\ (events_ # << >> => events_' # << >>)]_vars

\* purge(length) was refused on a buffer of two records with the cursor on the
\* second.
C17_Witness ==
    /\ op = "purge refused"
    /\ observed.status = "purge"
    /\ observed.returned = "False"
    /\ Len(events_) = 2
    /\ observed.ending_index = Len(events_)
    /\ index_ = 1

\* No record is under the cursor: it is at or past the end, or the buffer
\* never received a record.
NoRecordUnderCursor == index_ = NoneIndex \/ index_ >= Len(events_)

\* C18: with no record under the cursor, a never-filled buffer included,
\* current() returns the no-record signal and fails in no other way, and
\* has_next() is false in exactly those states.
C18_CurrentSignalsNoRecord ==
    [][op' = "current"
       => /\ (NoRecordUnderCursor => observed'.status = "None")
          /\ (has_next(events_, index_) <=> ~NoRecordUnderCursor)]_vars

\* The records still in the buffer have all been dispatched by the driver.
AllBufferedDispatched ==
    \A p \in 1 .. Len(events_) :
        \E d \in DOMAIN dispatched : dispatched[d] = origin + p

\* C19: after an append the driver starts to drain exactly when the last
\* record's timestamp minus the first one's is greater than buffer_size; the
\* buffer is reset, and the last statements written, only when every buffered
\* record, the appended one included, has been dispatched; and nothing else
\* removes a record.
C19_FlushWhenSpanExceeds ==
    [][/\ (op' = "add"
           => (pc' = "drain"
               <=> events_'[Len(events_')].Timestamp - events_'[1].Timestamp
                       > buffer_size))
       /\ (op' \in {"flush", "write"}
           => /\ AllBufferedDispatched
              /\ Len(dispatched) = nread
              /\ (nread > 0 => dispatched[Len(dispatched)] = nread))
       /\ (op' = "flush" => events_' = << >> /\ index_' = NoneIndex)
       /\ (Len(events_') < Len(events_) => op' = "flush")]_vars

\* A window of 100 was exceeded by the second append, both records were
\* dispatched and the buffer was reset.
C19_Witness ==
    /\ op = "flush"
    /\ buffer_size = 100
    /\ nread = 2
    /\ dispatched = <<1, 2>>
    /\ events_ = << >>

\* The categories of the policies that look the record's source up in
\* internal_plugin_to_grammar.
DisplayNamePolicies ==
    {"FieldMouseEvent", "MousePressedEvent", "FieldInputEvent",
     "VerticalScrollbarAdjustmentEvent", "MouseEnteredEvent", "MouseExitedEvent"}

\* The record under the cursor belongs to one of those policies and its source
\* has no display name.
UnmappedAtCursor ==
    /\ has_next(events_, index_)
    /\ events_[index_ + 1].Name \in DisplayNamePolicies
    /\ events_[index_ + 1].Data.EventSource \notin DOMAIN internal_plugin_to_grammar

\* C20: a dispatch on a record whose source has no display name raises
\* nothing and ends nothing, and the driver goes on with the next record.
C20_UnmappedSourceSkipped ==
    [][(Dispatching /\ UnmappedAtCursor)
       => /\ grammar_statements'.status \in {"None", "list"}
          /\ pc' = pc
          /\ index_' = index_ + 1]_vars

\* C21: any two distinct records held in the buffer have different identity
\* values, also when the entries they were built from have the same content.
C21_DistinctIdentities ==
    \A p, q \in DOMAIN events_ :
        p # q => events_[p].Hash # events_[q].Hash

\* The action stated for a key press in a field: the words CTRL,
\* SHIFT and ALT, in this order and each exactly when its flag is set, then
\* the key's name, every word followed by one blank.
C22_Action(event_data) ==
    LET words == <<[word |-> "CTRL ", set |-> event_data.CtrlDown],
                   [word |-> "SHIFT ", set |-> event_data.ShiftDown],
                   [word |-> "ALT ", set |-> event_data.AltDown]>>
        IsSet(w) == w.set
        kept == SelectSeq(words, IsSet)
    IN  [j \in DOMAIN kept |-> kept[j].word]
            \o <<keyboard_scan_code_mapping[event_data.KeyCode], " ">>

\* C22: a dispatch on a FieldInputEvent yields nothing when the key code has
\* no mapping, and otherwise exactly one statement whose action is the words
\* CTRL, SHIFT, ALT of the flags that are set, in this order, followed by the
\* key's name.
C22_FieldKeyEntry ==
    [][(Dispatching /\ AtCursor("FieldInputEvent"))
       => IF events_[index_ + 1].Data.KeyCode \notin DOMAIN keyboard_scan_code_mapping
          THEN grammar_statements'.status = "None"
          ELSE /\ grammar_statements'.status = "list"
               /\ Len(grammar_statements'.list) = 1
               /\ grammar_statements'.list[1].sentence_.input_action_
                      = C22_Action(events_[index_ + 1].Data)]_vars

\* The mouse press under the cursor is a plain one: not flagged as
\* popup trigger, or from the left or the middle button.
PlainPressAtCursor ==
    /\ AtCursor("MousePressedEvent")
    /\ \/ ~events_[index_ + 1].Data.IsPopupTrigger
       \/ events_[index_ + 1].Data.MouseButton \in {1, 2}

\* C23: a dispatch on a mouse press without the popup flag, or from the left
\* or middle button, yields exactly one statement, not inferred, without an
\* effect fragment and with the press's identity as its whole provenance.
C23_PlainPressYieldsOne ==
    [][(Dispatching /\ PlainPressAtCursor)
       => LET r == grammar_statements'
          IN  /\ r.status = "list"
              /\ Len(r.list) = 1
              /\ ~r.list[1].inferred_
              /\ r.list[1].sentence_.action_ = << >>
              /\ r.list[1].hash_list_ = <<events_[index_ + 1].Hash>>]_vars

\* The record at position p is a key-down keyboard record.
KeyDownAt(p) ==
    events_[p].Name = "KeyboardEvent" /\ events_[p].Data.EventName = "DOWN"

\* The statement returned by this step has the records at the positions run,
\* after the cursor's record, as its provenance.
KeyStatementFrom(run) ==
    grammar_statements'.list[1].hash_list_
        = <<events_[index_ + 1].Hash>> \o [j \in DOMAIN run |-> events_[run[j]].Hash]

\* The follow-ups of a scan that ends at the first record that is not a
\* key-down and at the first gap of 0.91 s or more: the positions after the
\* cursor up to which every record is a key-down less than 0.91 s after the
\* record before it.
C24_UnbrokenRun ==
    LET Reached(p) ==
            \A q \in index_ + 2 .. p :
                /\ KeyDownAt(q)
                /\ events_[q].Timestamp - events_[q - 1].Timestamp < KeyGap
    IN  SelectSeq([j \in 1 .. Len(events_) |-> j],
                  LAMBDA p : p >= index_ + 2 /\ Reached(p))

\* The follow-ups of a scan that ends only at a gap of 0.91 s or more between
\* a key-down and the key accepted before it, the cursor's record first:
\* records that are not key-downs neither count nor end it.
C24_SkippingRun ==
    LET downs == SelectSeq([j \in 1 .. Len(events_) |-> j],
                           LAMBDA p : p >= index_ + 2 /\ KeyDownAt(p))
        Before(m) == IF m = 1 THEN index_ + 1 ELSE downs[m - 1]
        Reached(m) ==
            \A n \in 1 .. m :
                events_[downs[n]].Timestamp - events_[Before(n)].Timestamp < KeyGap
    IN  [m \in {n \in DOMAIN downs : Reached(n)} |-> downs[m]]

\* C24 as stated: the keys of a key-entry statement are the cursor's record
\* and the key-downs that follow it without a record of another kind and
\* without a gap of 0.91 s or more in between.
C24_ScanStopsAtOtherRecord ==
    [][(/\ Dispatching
        /\ AtCursor("KeyboardEvent")
        /\ grammar_statements'.status = "list")
       => KeyStatementFrom(C24_UnbrokenRun)]_vars

\* C24 amended: the keys of a key-entry statement are the cursor's record and
\* the later key-downs, each less than 0.91 s after the key accepted before
\* it, up to the first key-down with a gap of 0.91 s or more; key-up records
\* and records of other categories in between are passed over.
C24_ScanSkipsOtherRecords ==
    [][(/\ Dispatching
        /\ AtCursor("KeyboardEvent")
        /\ grammar_statements'.status = "list")
       => KeyStatementFrom(C24_SkippingRun)]_vars

\* A statement was made of two key-downs with a pointer move between them.
C24_Witness ==
    /\ op = "parse_event"
    /\ index_ = 0
    /\ Len(events_) = 3
    /\ KeyDownAt(1) /\ KeyDownAt(3)
    /\ events_[2].Name = "MouseEvent"
    /\ grammar_statements.status = "list"
    /\ grammar_statements.list[1].hash_list_ = <<events_[1].Hash, events_[3].Hash>>
    /\ events_[1].Consumed /\ ~events_[2].Consumed /\ events_[3].Consumed

\* The positions of the run that starts at the cursor: the cursor's record and
\* the follow-ups of the scan.
C25_Run == <<index_ + 1>> \o C24_SkippingRun

\* C25: when the scan finds a follow-up for an unconsumed key-down under the
\* cursor, after the dispatch every record of the run, the cursor's record
\* included, is consumed, every other record and every other field is as
\* before, and the provenance of the statement is the identities of the run's
\* records in buffer order, the cursor's record first.
C25_RunConsumedAndCited ==
    [][(/\ Dispatching
        /\ AtCursor("KeyboardEvent")
        /\ KeyDownAt(index_ + 1)
        /\ ~events_[index_ + 1].Consumed
        /\ C24_SkippingRun # << >>)
       => LET run == C25_Run
              members == {run[j] : j \in DOMAIN run}
          IN  /\ grammar_statements'.status = "list"
              /\ Len(grammar_statements'.list) = 1
              /\ DOMAIN events_' = DOMAIN events_
              /\ \A p \in DOMAIN events_ :
                    IF p \in members
                    THEN events_'[p] = [events_[p] EXCEPT !.Consumed = TRUE]
                    ELSE events_'[p] = events_[p]
              /\ \A j \in 1 .. Len(run) - 1 : run[j] < run[j + 1]
              /\ grammar_statements'.list[1].hash_list_
                     = [j \in DOMAIN run |-> events_[run[j]].Hash]]_vars

\* A run of two keys was collected from the second record on: both are
\* consumed and cited in order, and the key before the cursor is untouched.
C25_Witness ==
    /\ op = "parse_event"
    /\ index_ = 1
    /\ Len(events_) = 3
    /\ KeyDownAt(1) /\ KeyDownAt(2) /\ KeyDownAt(3)
    /\ ~events_[1].Consumed /\ events_[2].Consumed /\ events_[3].Consumed
    /\ grammar_statements.status = "list"
    /\ grammar_statements.list[1].hash_list_ = <<events_[2].Hash, events_[3].Hash>>

\* The follow-ups the scrollbar scan takes for the record under the cursor:
\* of the later scrollbar records of the cursor's source, those up to the first
\* one that comes 5 s or more after the one taken before it (the cursor's
\* record first); other records neither count nor end the run.
C27_Run ==
    LET trigger == events_[index_ + 1]
        sames == SelectSeq([j \in 1 .. Len(events_) |-> j],
                           LAMBDA p :
                               /\ p >= index_ + 2
                               /\ events_[p].Name = "VerticalScrollbarAdjustmentEvent"
                               /\ events_[p].Data.EventSource
                                      = trigger.Data.EventSource)
        Before(m) == IF m = 1 THEN index_ + 1 ELSE sames[m - 1]
        Reached(m) ==
            \A n \in 1 .. m :
                events_[sames[n]].Timestamp - events_[Before(n)].Timestamp < ScrollGap
    IN  [m \in {n \in DOMAIN sames : Reached(n)} |-> sames[m]]

\* C26: a dispatch on an unconsumed scrollbar record yields nothing when the
\* scan took fewer than 2 follow-ups, and yields statements, four of them,
\* only when it took at least 2.
C26_FewerThanTwoYieldsNothing ==
    [][ScrollDispatch
       => /\ (Len(C27_Run) < 2 => grammar_statements'.status = "None")
          /\ (grammar_statements'.status = "list"
              => Len(C27_Run) >= 2 /\ Len(grammar_statements'.list) = 4)]_vars

\* A trigger with one follow-up 2 s later was dispatched: the follow-up is
\* consumed and nothing came back.
C26_Witness ==
    /\ op = "parse_event"
    /\ index_ = 0
    /\ Len(events_) = 2
    /\ AtCursor("VerticalScrollbarAdjustmentEvent")
    /\ events_[2].Name = "VerticalScrollbarAdjustmentEvent"
    /\ events_[2].Data.EventSource = events_[1].Data.EventSource
    /\ events_[2].Timestamp - events_[1].Timestamp = 200
    /\ ~events_[1].Consumed /\ events_[2].Consumed
    /\ grammar_statements.status = "None"

C28_Location(event) ==
    internal_plugin_to_grammar[event.Data.EventSource]
        \o <<" : ", "ScrollbarLocation", "[">>
        \o <<ToString(event.Data.ScrollbarLocation)>> \o <<"]">>

\* C28: the statements of a scrollbar dispatch are the left-click, wheel-up,
\* wheel-down and drag alternatives; each has the context built from the
\* scroll position of the cursor's record, the effect built from the scroll
\* position of the last follow-up taken, and as provenance the identity of
\* the cursor's record followed by those of the follow-ups taken.
C28_FourAlternatives ==
    [][(ScrollDispatch /\ grammar_statements'.status = "list")
       => LET r == grammar_statements'.list
              run == C27_Run
          IN  /\ Len(r) = 4
              /\ {r[j].sentence_.input_action_ : j \in 1 .. 4}
                     = {<<"Drag">>, <<"Left Click">>, <<"MouseWheel Up">>,
                        <<"MouseWheel Down">>}
              /\ \A j \in 1 .. 4 :
                    /\ r[j].inferred_
                    /\ r[j].sentence_.input_device_ = <<"Mouse">>
                    /\ r[j].sentence_.tool_context_
                           = C28_Location(events_[index_ + 1])
                    /\ r[j].sentence_.action_
                           = C28_Location(events_[run[Len(run)]])
                    /\ r[j].hash_list_
                           = <<events_[index_ + 1].Hash>>
                                 \o [m \in DOMAIN run |-> events_[run[m]].Hash]]_vars

\* A run of three records that starts at scroll position 10 and ends at 20
\* was reported: the context names 10, the effect 20, the provenance all three.
C28_Witness ==
    /\ op = "parse_event"
    /\ index_ = 0
    /\ Len(events_) = 3
    /\ grammar_statements.status = "list"
    /\ Len(grammar_statements.list) = 4
    /\ events_[1].Data.ScrollbarLocation = 10
    /\ events_[3].Data.ScrollbarLocation = 20
    /\ grammar_statements.list[4].sentence_.action_ = C28_Location(events_[3])
    /\ grammar_statements.list[4].sentence_.tool_context_ = C28_Location(events_[1])
    /\ grammar_statements.list[4].hash_list_
           = <<events_[1].Hash, events_[2].Hash, events_[3].Hash>>

\* The FieldLocationEvents the scan around the cursor reads: those with no
\* record of another category more than 1.5 s away between them and the
\* cursor's record.
C29_Scanned ==
    LET c == index_ + 1
        Between(p) == IF p > c THEN c + 1 .. p - 1 ELSE p + 1 .. c - 1
    IN  {p \in DOMAIN events_ :
            /\ p # c
            /\ events_[p].Name = "FieldLocationEvent"
            /\ \A q \in Between(p) :
                  events_[q].Name # "FieldLocationEvent"
                  => TimeBetween(q, c) <= FieldWindow}

\* The scanned unconsumed companions of a sub-component.
C29_Companions(source) ==
    {p \in C29_Scanned :
        ~events_[p].Consumed /\ events_[p].Data.EventSource = source}

\* The companion stated for a sub-component and a click count.
C29_Retained(source, count) ==
    CHOOSE p \in C29_Companions(source) :
        \A q \in C29_Companions(source) : IF count = 1 THEN p <= q ELSE p >= q

\* C29: the statement of a left single or double click on a field cites, next
\* to the click itself, one companion for every sub-component that has an
\* unconsumed FieldLocationEvent among the scanned ones: the earliest by
\* buffer position for a single click, the latest for a double click.
C29_EarliestOrLatestCompanion ==
    [][(/\ Dispatching
        /\ AtCursor("FieldMouseEvent")
        /\ events_[index_ + 1].Data.MouseButton = 1
        /\ events_[index_ + 1].Data.ClickCount \in {1, 2}
        /\ grammar_statements'.status = "list")
       => LET sources == {events_[p].Data.EventSource : p \in C29_Scanned}
              count == events_[index_ + 1].Data.ClickCount
              cited == {s \in sources : C29_Companions(s) # {}}
          IN  /\ Len(grammar_statements'.list) = 1
              /\ Provenance(grammar_statements'.list[1])
                     = {events_[index_ + 1].Hash}
                           \cup {events_[C29_Retained(s, count)].Hash : s \in cited}
              /\ Len(grammar_statements'.list[1].hash_list_)
                     = 1 + Cardinality(cited)]_vars

\* A single click after two FieldLocationEvents of one sub-component cites the
\* first of them and not the second.
C29_Witness ==
    /\ op = "parse_event"
    /\ index_ = 2
    /\ Len(events_) = 3
    /\ AtCursor("FieldMouseEvent")
    /\ events_[3].Data.MouseButton = 1 /\ events_[3].Data.ClickCount = 1
    /\ events_[1].Name = "FieldLocationEvent"
    /\ events_[2].Name = "FieldLocationEvent"
    /\ events_[1].Data.EventSource = events_[2].Data.EventSource
    /\ grammar_statements.status = "list"
    /\ grammar_statements.list[1].hash_list_ = <<events_[1].Hash, events_[3].Hash>>

\* C30: a dispatch on a FieldMouseEvent or a MousePressedEvent changes no
\* record: the consumed flag of the cursor's record and of every companion it
\* read stays as it was.
C30_CompanionsNotConsumed ==
    [][(Dispatching /\ (AtCursor("FieldMouseEvent") \/ AtCursor("MousePressedEvent")))
       => /\ Len(events_') = Len(events_)
          /\ \A p \in DOMAIN events_ : events_'[p].Consumed = events_[p].Consumed]_vars

\* The second of two left clicks was dispatched and cites the FieldLocationEvent
\* before both; the companion and the clicks are unconsumed.
C30_Witness ==
    /\ op = "parse_event"
    /\ index_ = 2
    /\ Len(events_) = 3
    /\ events_[1].Name = "FieldLocationEvent"
    /\ events_[2].Name = "FieldMouseEvent" /\ events_[2].Data.MouseButton = 1
    /\ events_[3].Name = "FieldMouseEvent" /\ events_[3].Data.MouseButton = 1
    /\ grammar_statements.status = "list"
    /\ events_[1].Hash \in Provenance(grammar_statements.list[1])
    /\ \A p \in 1 .. 3 : ~events_[p].Consumed

\* The records of the two sequences are the same, in the same order, but for
\* their consumed flags.
SameButFlags(before, after) ==
    /\ Len(after) = Len(before)
    /\ \A p \in DOMAIN before :
          after[p] = [before[p] EXCEPT !.Consumed = after[p].Consumed]

C36_CursorInRange ==
    /\ (index_ = NoneIndex <=> nread = 0)
    /\ (index_ # NoneIndex => 0 <= index_ /\ index_ <= Len(events_))

\* The cursor is past the last of two records left by a purge.
C36_Witness ==
    /\ origin >= 1
    /\ Len(events_) = 2
    /\ index_ = 2
    /\ op = "next"

\* The lines written for a sequence of statements, in its order.
LinesOf(statements) ==
    [j \in DOMAIN statements |-> GrammarEvent_str(statements[j])]

\* The lines written so far followed by those still waiting to be written
\* (the last write leaves the written statements in grammar_events).
EmittedSoFar ==
    IF pc = "done" THEN output ELSE output \o LinesOf(grammar_events)

\* The timestamps of a sequence of lines never decrease.
NonDecreasing(lines) ==
    \A i, j \in DOMAIN lines : i < j => lines[i].Timestamp <= lines[j].Timestamp

\* C32: the statements a dispatch returns are put, in the order returned, after
\* those of all earlier dispatches; a write puts the waiting statements, in
\* their order, after the lines already in the file; nothing else changes the
\* file or the waiting statements; and the timestamps of the lines written and
\* waiting never decrease, flushes included.
C32_OutputInDispatchOrder ==
    /\ [][/\ (op' = "parse_event" /\ grammar_statements'.status = "list"
              => /\ grammar_events' = grammar_events \o grammar_statements'.list
                 /\ output' = output)
          /\ (op' = "parse_event" /\ grammar_statements'.status # "list"
              => grammar_events' = grammar_events /\ output' = output)
          /\ (op' \in {"flush", "write"}
              => output' = output \o LinesOf(grammar_events))
          /\ (op' = "flush" => grammar_events' = << >>)
          /\ (op' \in {"add", "eof"}
              => grammar_events' = grammar_events /\ output' = output)]_vars
    /\ [](NonDecreasing(EmittedSoFar))

\* The file holds the three statements of one trigger, written by a flush,
\* before a statement of a later trigger written at the end.
C32_Witness ==
    /\ pc = "done"
    /\ buffer_size = 0
    /\ Len(output) >= 4
    /\ output[1].Timestamp = output[3].Timestamp
    /\ ~output[1].Inferred /\ output[2].Inferred /\ output[3].Inferred
    /\ output[3].Timestamp < output[Len(output)].Timestamp
    /\ origin >= 2

\* The statements of the current chunk whose provenance holds the identity of
\* the record at position p.
Citing(p) ==
    {j \in DOMAIN grammar_events : events_[p].Hash \in Provenance(grammar_events[j])}

\* The statements of a set are those of one dispatch: none, one, or the four
\* adjacent inferred statements of one scrollbar trigger.
OfOneDispatch(S) ==
    \/ Cardinality(S) <= 1
    \/ \E a \in S :
          /\ S = a..(a + 3)
          /\ \A j \in S :
                /\ grammar_events[j].inferred_
                /\ grammar_events[j].hash_list_ = grammar_events[a].hash_list_
                /\ grammar_events[j].timestamp_ = grammar_events[a].timestamp_

\* C33: in a pass of the batch driver the identity of a consumed record is in
\* the provenance of the statements of at most one dispatch: of at most one
\* statement for a keyboard or window record, of the four statements of at
\* most one trigger for a scrollbar record.
C33_ConsumedCitedByOneTrigger ==
    \A p \in DOMAIN events_ :
        events_[p].Consumed
        => /\ OfOneDispatch(Citing(p))
           /\ (events_[p].Name # "VerticalScrollbarAdjustmentEvent"
               => Cardinality(Citing(p)) <= 1)

\* A click of the mouse lies before the cursor, at most 1 s before the record
\* under it.
C34_ClickBeforeCursor ==
    \E p \in 1..index_ :
        /\ events_[p].Name = "MouseEvent"
        /\ events_[p].Data.EventName = "CLICK"
        /\ events_[index_ + 1].Timestamp - events_[p].Timestamp <= ClickWindow

\* The inferred flags a dispatch on the record under the cursor is to give to
\* a result of n statements: all set for a scrollbar record and for a program
\* activation without a click, all but the first set for a mouse press, none
\* set otherwise.
C34_Flags(n) ==
    LET name == events_[index_ + 1].Name
    IN  [j \in 1..n |->
            CASE name = "VerticalScrollbarAdjustmentEvent" -> TRUE
              [] name = "GhidraProgramActivatedEvent" -> ~C34_ClickBeforeCursor
              [] name = "MousePressedEvent" -> j > 1
              [] OTHER -> FALSE]

C35_TriggerStampedAndCited ==
    [][(Dispatching /\ grammar_statements'.status = "list")
       => \A j \in DOMAIN grammar_statements'.list :
             LET g == grammar_statements'.list[j]
             IN  /\ g.timestamp_ = events_[index_ + 1].Timestamp
                 /\ events_[index_ + 1].Hash \in Provenance(g)]_vars

\* A program activation was dispatched with a click 0.5 s before it: the one
\* statement has the activation's timestamp and cites the activation, then
\* the click.
C35_Witness ==
    /\ op = "parse_event"
    /\ index_ = 1
    /\ AtCursor("GhidraProgramActivatedEvent")
    /\ events_[1].Name = "MouseEvent"
    /\ events_[2].Timestamp - events_[1].Timestamp = 50
    /\ grammar_statements.status = "list"
    /\ Len(grammar_statements.list) = 1
    /\ grammar_statements.list[1].timestamp_ = events_[2].Timestamp
    /\ grammar_statements.list[1].hash_list_ = <<events_[2].Hash, events_[1].Hash>>

\* The number of dispatches the running loop has made.
C37_StepsOfLoop == Len(dispatched) - origin

\* C37: every turn of the drain loop leaves the loop running, the number of
\* records as it was and the cursor one further, and the turns made by the
\* running loop are as many as the cursor has advanced from the buffer's
\* start, so that the loop ends, has_next false, after length minus cursor
\* turns.
C37_DrainTakesLengthMinusCursorSteps ==
    /\ [][Dispatching
          => /\ pc' = pc
             /\ Len(events_') = Len(events_)
             /\ index_' = index_ + 1
             /\ has_next(events_', index_') = (index_' < Len(events_'))]_vars
    /\ [](pc \in {"drain", "final"} => C37_StepsOfLoop = ArrivalCursor(0, index_))

\* The record at position p is a scrollbar record the cursor has passed, not
\* consumed by an earlier one, whose scan takes exactly one follow-up.
C38_DiscardedTrigger(p) ==
    /\ events_[p].Name = "VerticalScrollbarAdjustmentEvent"
    /\ ~events_[p].Consumed
    /\ index_ >= p
    /\ Len(consume_scroll_events(events_, p - 1).hash_list) = 1

\* The statements of the pass that were produced for the record at position p.
C38_ProducedFor(p) ==
    {j \in DOMAIN grammar_events :
        /\ grammar_events[j].source_event_ = events_[p].Event
        /\ grammar_events[j].timestamp_ = events_[p].Timestamp}

\* C38: in a pass of the batch driver, once the cursor has passed a scrollbar
\* trigger whose scan took exactly one follow-up, the follow-up is consumed
\* and stays so, and neither the trigger nor the follow-up has produced a
\* statement, before or after the cursor reaches the follow-up.
C38_DiscardedPairYieldsNothing ==
    \A p \in DOMAIN events_ :
        C38_DiscardedTrigger(p)
        => LET q == consume_scroll_events(events_, p - 1).last
           IN  /\ q > p
               /\ events_[q].Consumed
               /\ C38_ProducedFor(p) = {}
               /\ C38_ProducedFor(q) = {}

\* The drain of a trigger, its one follow-up 2 s later and a third scrollbar
\* record 5 s after that has come to its end: the follow-up is consumed and no
\* statement was produced.
C38_Witness ==
    /\ pc = "drain"
    /\ op = "parse_event"
    /\ Len(events_) = 3
    /\ C38_DiscardedTrigger(1)
    /\ events_[2].Name = "VerticalScrollbarAdjustmentEvent"
    /\ events_[2].Timestamp - events_[1].Timestamp = 200
    /\ events_[2].Consumed
    /\ events_[3].Name = "VerticalScrollbarAdjustmentEvent"
    /\ events_[3].Data.EventSource = events_[1].Data.EventSource
    /\ ~events_[3].Consumed
    /\ index_ = 3
    /\ grammar_events = << >>

\* The identities of the records of the chunk in the buffer.
C39_ChunkIdentities == {events_[p].Hash : p \in DOMAIN events_}

====
